---- MODULE Spec2Model ----
(***************************************************************************)
(* The embedded HTTP server of the cosmogenesis learning engine            *)
(* (include/httplib.h): the accept loop, the connection framer, the        *)
(* request parser, the router, the static file resolver and the response   *)
(* writer, as a state machine over byte strings.                           *)
(*                                                                         *)
(* A byte is a one-character string and a std::string is a sequence of     *)
(* bytes.  Positions are 0-based as in the C++ source; npos stands for     *)
(* std::string::npos.                                                      *)
(***************************************************************************)
EXTENDS Integers, Sequences, FiniteSets, TLC

\* ------------------------------------------------------------------ bounds

\* sizeof(chunk) of read_request, scaled down from 4096 so that requests of a
\* few dozen bytes span several reads.
ChunkSize == 4

\* The modulus of size_t / unsigned long long, scaled down from 2^64.
SizeMod == 65536

\* Connections the accept loop takes before the model stops accepting.
MaxConns == 2

\* The bytes a partial send takes.
SendPiece == 48

\* The bytes handle_client's buffer can hold before its append throws
\* (std::length_error beyond max_size(), std::bad_alloc before that), scaled
\* down to a little more than the longest request of the model.
MaxBuffer == 48

\* ------------------------------------------------------- bytes and strings

\* The backspace, for which TLA+ has no escape: written as two characters.
Backspace == "\\b"

\* The bytes of the model in ascending order of their character code (the
\* backquote is left out).
Ascii ==
  <<
    Backspace, "\t", "\n", "\f", "\r", " ", "!", "\"", "#", "$", "%", "&", "'", "(",
    ")", "*", "+", ",", "-", ".", "/", "0", "1", "2", "3", "4", "5", "6",
    "7", "8", "9", ":", ";", "<", "=", ">", "?", "@", "A", "B", "C", "D",
    "E", "F", "G", "H", "I", "J", "K", "L", "M", "N", "O", "P", "Q", "R",
    "S", "T", "U", "V", "W", "X", "Y", "Z", "[", "\\", "]", "^", "_", 
    "a", "b", "c", "d", "e", "f", "g", "h", "i", "j", "k", "l", "m", "n",
    "o", "p", "q", "r", "s", "t", "u", "v", "w", "x", "y", "z", "{", "|",
    "}", "~" >>

Upper ==
  <<
    "A", "B", "C", "D", "E", "F", "G", "H", "I", "J", "K", "L", "M", "N",
    "O", "P", "Q", "R", "S", "T", "U", "V", "W", "X", "Y", "Z" >>

Lower ==
  <<
    "a", "b", "c", "d", "e", "f", "g", "h", "i", "j", "k", "l", "m", "n",
    "o", "p", "q", "r", "s", "t", "u", "v", "w", "x", "y", "z" >>

Digits == <<"0", "1", "2", "3", "4", "5", "6", "7", "8", "9">>

Code(c) == CHOOSE i \in 1..Len(Ascii) : Ascii[i] = c

\* std::isspace in the "C" locale (the vertical tab has no TLA+ escape and
\* is not among the bytes of the model).
IsSpace(c) == c \in {" ", "\t", "\n", "\f", "\r"}

IsDigit(c) == \E i \in 1..10 : Digits[i] = c

DigitVal(c) == (CHOOSE i \in 1..10 : Digits[i] = c) - 1

\* std::tolower
ToLower(c) ==
  IF \E i \in 1..26 : Upper[i] = c
  THEN Lower[CHOOSE i \in 1..26 : Upper[i] = c]
  ELSE c

Min(a, b) == IF a < b THEN a ELSE b

npos == -1

\* s.substr(pos, n) and s.substr(pos): the count is clamped to the end.
Substr(s, pos, n) == SubSeq(s, pos + 1, pos + Min(n, Len(s) - pos))

SubstrFrom(s, pos) == SubSeq(s, pos + 1, Len(s))

\* Whether pat occurs in s at 0-based position i.
MatchAt(s, pat, i) ==
  /\ i >= 0
  /\ i + Len(pat) <= Len(s)
  /\ \A j \in 1..Len(pat) : s[i + j] = pat[j]

\* s.find(pat, from)
Find(s, pat, from) ==
  LET hits == {i \in from..(Len(s) - Len(pat)) : MatchAt(s, pat, i)}
  IN  IF hits = {} THEN npos
      ELSE CHOOSE i \in hits : \A j \in hits : i <= j

\* s.rfind(pat, 0) == 0: the only position rfind may report from 0 is 0.
StartsWith(s, pat) == MatchAt(s, pat, 0)

\* operator< of std::string: lexicographic by byte value.
RECURSIVE StrLess(_, _)
StrLess(a, b) ==
  IF b = <<>> THEN FALSE
  ELSE IF a = <<>> THEN TRUE
  ELSE IF a[1] = b[1] THEN StrLess(Tail(a), Tail(b))
  ELSE Code(a[1]) < Code(b[1])

\* ------------------------------------------------ literals of the source

CRLF == <<"\r", "\n">>

HeaderTerminator == <<"\r", "\n", "\r", "\n">>

ContentLengthKey == <<"C", "o", "n", "t", "e", "n", "t", "-", "L", "e", "n", "g", "t", "h">>

ContentTypeKey == <<"C", "o", "n", "t", "e", "n", "t", "-", "T", "y", "p", "e">>

POST == <<"P", "O", "S", "T">>

IndexHtml == <<"i", "n", "d", "e", "x", ".", "h", "t", "m", "l">>

DotDot == <<".", ".">>

NotFoundBody == <<"n", "o", "t", "_", "f", "o", "u", "n", "d">>

ForbiddenBody == <<"f", "o", "r", "b", "i", "d", "d", "e", "n">>

TextPlain == <<"t", "e", "x", "t", "/", "p", "l", "a", "i", "n">>

\* ----------------------------------------------- string helpers (httplib.h)

\* Server::trim
RECURSIVE TrimLeft(_)
TrimLeft(s) == IF s # <<>> /\ IsSpace(s[1]) THEN TrimLeft(Tail(s)) ELSE s

RECURSIVE TrimRight(_)
TrimRight(s) ==
  IF s # <<>> /\ IsSpace(s[Len(s)])
  THEN TrimRight(SubSeq(s, 1, Len(s) - 1))
  ELSE s

trim(value) == TrimRight(TrimLeft(value))

\* A strip_query that keeps the query string.
strip_nothing(path) == path

\* Server::strip_query
strip_query(path) ==
  LET q == Find(path, <<"?">>, 0)
  IN  IF q = npos THEN path ELSE Substr(path, 0, q)

\* Server::case_insensitive_equal
case_insensitive_equal(a, b) ==
  /\ Len(a) = Len(b)
  /\ \A i \in 1..Len(a) : ToLower(a[i]) = ToLower(b[i])

\* An ends_with that compares the bytes as they are.
ends_with_exactly(value, suffix) ==
  /\ Len(suffix) <= Len(value)
  /\ \A i \in 1..Len(suffix) :
       suffix[i] = value[Len(value) - Len(suffix) + i]

\* Server::ends_with
ends_with(value, suffix) ==
  /\ Len(suffix) <= Len(value)
  /\ \A i \in 1..Len(suffix) :
       ToLower(suffix[i]) = ToLower(value[Len(value) - Len(suffix) + i])

\* Server::detect_mime
detect_mime(path) ==
  IF ends_with(path, <<".", "h", "t", "m", "l">>)
  THEN <<"t", "e", "x", "t", "/", "h", "t", "m", "l">>
  ELSE IF ends_with(path, <<".", "c", "s", "s">>)
  THEN <<"t", "e", "x", "t", "/", "c", "s", "s">>
  ELSE IF ends_with(path, <<".", "j", "s">>)
  THEN <<"a", "p", "p", "l", "i", "c", "a", "t", "i", "o", "n", "/", "j", "a", "v", "a", "s", "c", "r", "i", "p", "t">>
  ELSE IF ends_with(path, <<".", "j", "s", "o", "n">>)
  THEN <<"a", "p", "p", "l", "i", "c", "a", "t", "i", "o", "n", "/", "j", "s", "o", "n">>
  ELSE IF ends_with(path, <<".", "t", "x", "t">>)
  THEN TextPlain
  ELSE <<"a", "p", "p", "l", "i", "c", "a", "t", "i", "o", "n", "/", "o", "c", "t", "e", "t", "-", "s", "t", "r", "e", "a", "m">>

\* Server::status_message
status_message(status) ==
  CASE status = 200 -> <<"O", "K">>
    [] status = 201 -> <<"C", "r", "e", "a", "t", "e", "d">>
    [] status = 204 -> <<"N", "o", " ", "C", "o", "n", "t", "e", "n", "t">>
    [] status = 400 -> <<"B", "a", "d", " ", "R", "e", "q", "u", "e", "s", "t">>
    [] status = 403 -> <<"F", "o", "r", "b", "i", "d", "d", "e", "n">>
    [] status = 404 -> <<"N", "o", "t", " ", "F", "o", "u", "n", "d">>
    [] status = 500 -> <<"I", "n", "t", "e", "r", "n", "a", "l", " ", "S", "e", "r", "v", "e", "r", " ", "E", "r", "r", "o", "r">>
    [] status = 503 -> <<"S", "e", "r", "v", "i", "c", "e", " ", "U", "n", "a", "v", "a", "i", "l", "a", "b", "l", "e">>
    [] OTHER -> <<"O", "K">>

\* operator<< of an integer: its decimal digits.
RECURSIVE NatDigits(_)
NatDigits(n) ==
  IF n < 10 THEN <<Digits[n + 1]>>
  ELSE NatDigits(n \div 10) \o <<Digits[(n % 10) + 1]>>

IntDigits(n) == IF n < 0 THEN <<"-">> \o NatDigits(0 - n) ELSE NatDigits(n)

\* std::strtoull(value, nullptr, 10) cast to size_t: leading white space, an
\* optional sign, then the longest run of digits; no digits give 0, a value
\* above the maximum gives the maximum, and a minus sign negates modulo the
\* width.  A result of -1 of the accumulator stands for "out of range".
RECURSIVE AccumulateDigits(_, _)
AccumulateDigits(s, acc) ==
  IF s = <<>> \/ ~IsDigit(s[1]) THEN acc
  ELSE IF acc = -1 \/ acc * 10 + DigitVal(s[1]) > SizeMod - 1
       THEN AccumulateDigits(Tail(s), -1)
       ELSE AccumulateDigits(Tail(s), acc * 10 + DigitVal(s[1]))

strtoull(value) ==
  LET s == TrimLeft(value)
      signed == s # <<>> /\ s[1] \in {"+", "-"}
      neg == s # <<>> /\ s[1] = "-"
      acc == AccumulateDigits(IF signed THEN Tail(s) ELSE s, 0)
  IN  IF acc = -1 THEN SizeMod - 1
      ELSE IF neg THEN (SizeMod - acc) % SizeMod
      ELSE acc

\* ------------------------------------------------------ framing and parsing

\* Server::extract_content_length, from position pos of the header block.
RECURSIVE ExtractFrom(_, _)
ExtractFrom(headers, pos) ==
  IF pos >= Len(headers) THEN 0
  ELSE
    LET found == Find(headers, CRLF, pos)
        end == IF found = npos THEN Len(headers) ELSE found
        line == Substr(headers, pos, end - pos)
        colon == Find(line, <<":">>, 0)
    IN  IF colon = npos THEN ExtractFrom(headers, end + 2)
        ELSE IF ~case_insensitive_equal(trim(Substr(line, 0, colon)),
                                        ContentLengthKey)
        THEN ExtractFrom(headers, end + 2)
        ELSE strtoull(trim(SubstrFrom(line, colon + 1)))

extract_content_length(headers) == ExtractFrom(headers, 0)

\* A total that leaves out the four bytes of the terminator.
total_without_terminator(header_end, content_length) ==
  (header_end + content_length) % SizeMod

\* header_end + 4 + content_length in size_t arithmetic.
total_needed(header_end, content_length) ==
  (header_end + 4 + content_length) % SizeMod

\* The header search of the read loop after an append (lines 177-182):
\* the terminator is looked for in the whole buffer until it is found, and
\* Content-Length is extracted from buffer.substr(0, header_end + 2), which
\* starts at the request line.
LocateHeaderEnd(buffer, header_end) ==
  IF header_end = npos THEN Find(buffer, HeaderTerminator, 0) ELSE header_end

LocateContentLength(buffer, header_end, content_length) ==
  LET he == LocateHeaderEnd(buffer, header_end)
  IN  IF header_end = npos /\ he # npos
      THEN extract_content_length(Substr(buffer, 0, he + 2))
      ELSE content_length

\* The loop's completeness test (lines 183-188).
RequestComplete(buffer, header_end, content_length) ==
  /\ header_end # npos
  /\ Len(buffer) >= total_needed(header_end, content_length)

\* operator>> on the request line: the white-space separated tokens.
RECURSIVE Tokens(_)
Tokens(s) ==
  LET t == TrimLeft(s)
      stops == {i \in 1..Len(t) : IsSpace(t[i])}
      n == IF stops = {} THEN Len(t)
           ELSE (CHOOSE i \in stops : \A j \in stops : i <= j) - 1
  IN  IF t = <<>> THEN <<>>
      ELSE <<SubSeq(t, 1, n)>> \o Tokens(SubSeq(t, n + 1, Len(t)))

Token(toks, i) == IF i <= Len(toks) THEN toks[i] ELSE <<>>

\* headers[key] = value of a std::map
MapSet(m, key, value) ==
  [k \in DOMAIN m \cup {key} |-> IF k = key THEN value ELSE m[k]]

EmptyMap == [k \in {} |-> <<>>]

\* The header loop of parse_request (lines 230-245).
RECURSIVE ParseHeaders(_, _, _, _)
ParseHeaders(raw, pos, header_end, headers) ==
  IF pos >= header_end THEN headers
  ELSE
    LET next == Find(raw, CRLF, pos)
    IN  IF next = npos \/ next > header_end THEN headers
        ELSE
          LET header_line == Substr(raw, pos, next - pos)
              colon == Find(header_line, <<":">>, 0)
          IN  IF colon = npos
              THEN ParseHeaders(raw, next + 2, header_end, headers)
              ELSE ParseHeaders(raw, next + 2, header_end,
                     MapSet(headers,
                            trim(Substr(header_line, 0, colon)),
                            trim(SubstrFrom(header_line, colon + 1))))

\* The body slice of parse_request (line 247).
BodySlice(raw, header_end, content_length) ==
  Substr(raw, header_end + 4, content_length)

NoRequest == [method |-> <<>>, path |-> <<>>, body |-> <<>>, headers |-> EmptyMap]

\* Server::parse_request
parse_request(raw, header_end, content_length) ==
  LET line_end == Find(raw, CRLF, 0)
      toks == Tokens(Substr(raw, 0, line_end))
  IN  IF line_end = npos THEN [ok |-> FALSE, request |-> NoRequest]
      ELSE IF Token(toks, 1) = <<>> \/ Token(toks, 2) = <<>>
      THEN [ok |-> FALSE, request |-> NoRequest]
      ELSE [ok |-> TRUE,
            request |-> [method |-> Token(toks, 1),
                         path |-> Token(toks, 2),
                         body |-> BodySlice(raw, header_end, content_length),
                         headers |-> ParseHeaders(raw, line_end + 2,
                                                  header_end, EmptyMap)]]

\* An end of read_request without the length check of lines 206-208.
FinishReadWithoutLengthCheck(buffer, header_end, content_length) ==
  LET he == LocateHeaderEnd(buffer, header_end)
      cl == LocateContentLength(buffer, header_end, content_length)
      failed == [ok |-> FALSE, request |-> NoRequest,
                 header_end |-> he, content_length |-> cl]
      parsed == parse_request(buffer, he, cl)
  IN  IF buffer = <<>>
      THEN [failed EXCEPT !.header_end = header_end,
                          !.content_length = content_length]
      ELSE IF he = npos THEN failed
      ELSE [ok |-> parsed.ok, request |-> parsed.request,
            header_end |-> he, content_length |-> cl]

\* The end of read_request once the loop is left (lines 194-212): its
\* return value, the request, and header_end and content_length at return.
FinishRead(buffer, header_end, content_length) ==
  LET he == LocateHeaderEnd(buffer, header_end)
      cl == LocateContentLength(buffer, header_end, content_length)
      failed == [ok |-> FALSE, request |-> NoRequest,
                 header_end |-> he, content_length |-> cl]
      parsed == parse_request(buffer, he, cl)
  IN  IF buffer = <<>>
      THEN [failed EXCEPT !.header_end = header_end,
                          !.content_length = content_length]
      ELSE IF he = npos THEN failed
      ELSE IF Len(buffer) < total_needed(he, cl) THEN failed
      ELSE [ok |-> parsed.ok, request |-> parsed.request,
            header_end |-> he, content_length |-> cl]

\* ------------------------------------------------------------ server state

VARIABLES
  server_fd_,       \* the listening socket, -1 when closed
  running_,         \* Server::running_
  get_handlers_,    \* the patterns registered with Get
  post_handlers_,   \* the patterns registered with Post
  mount_point_,     \* Server::mount_point_
  mount_dir_,       \* Server::mount_dir_
  pc,               \* where listen is: accept, recv, dispatch, send, close,
                    \* returned (listen has returned), terminated (an
                    \* exception has left listen)
  accepted,         \* connections accepted so far
  client_fd,        \* listen's client_fd: the result of the last accept (0: none yet)
  accept_errno,     \* errno after a failed accept, where line 110 reads it
  open,             \* the client sockets that are open
  client,           \* what the connected client sends: line, headers, body
  delivered,        \* how many bytes of it recv has handed over
  buffer,           \* handle_client's buffer, while read_request fills it
  header_end,       \* read_request's header_end
  content_length,   \* read_request's content_length
  received,         \* read_request's received: the last result of recv
  request,          \* parsed.request once read_request has succeeded
  response,         \* the Response that send_response serializes
  out,              \* send_response's out
  sent,             \* send_response's sent
  calls             \* the record of this connection: how read_request
                    \* ended, whether every recv filled the chunk or took
                    \* the client's last bytes, the size of the buffer when
                    \* it returned, the send_response calls,
                    \* the handler that ran and its pattern, the files
                    \* opened, the send calls and the bytes they wrote,
                    \* where handle_client was when stop() was called

VARIABLES
  reg_,             \* main's registry, which Server::reg_ refers to
  cast_,            \* what this build's conversion of an out-of-range
                    \* double to an integer yields
  app               \* the record of the application: where main is, the
                    \* registry file it found, the last request served
                    \* with its response, whether the request before it
                    \* was the same and the response that one got, and
                    \* the Node and the worker id of the last /resolve

vars ==
  <<server_fd_, running_, get_handlers_, post_handlers_, mount_point_,
    mount_dir_, pc, accepted, client_fd, accept_errno, open, client, delivered, buffer, header_end,
    content_length, received, request, response, out, sent, calls,
    reg_, cast_, app>>

appVars == <<reg_, cast_, app>>

serverVars == <<get_handlers_, post_handlers_, mount_point_, mount_dir_>>

\* --------------------------------------------------------------- responses

\* A default-constructed Response (lines 32-35).
NewResponse == [status |-> 200, body |-> <<>>, headers |-> EmptyMap]

\* Response::set_content
set_content(res, value, content_type) ==
  [res EXCEPT !.body = value,
              !.headers = MapSet(res.headers, ContentTypeKey, content_type)]

\* Response::set_header
set_header(res, key, value) ==
  [res EXCEPT !.headers = MapSet(res.headers, key, value)]

\* An ensure_default_headers that adds nothing.
ensure_no_headers(res) == res

\* Server::ensure_default_headers
ensure_default_headers(res) ==
  IF ContentTypeKey \in DOMAIN res.headers THEN res
  ELSE set_header(res, ContentTypeKey, TextPlain)

\* The keys of a std::map from the last to the first.
RECURSIVE KeysInReverse(_)
KeysInReverse(keys) ==
  IF keys = {} THEN <<>>
  ELSE LET k == CHOOSE a \in keys : \A b \in keys \ {a} : StrLess(b, a)
       IN  <<k>> \o KeysInReverse(keys \ {k})

\* The keys of a std::map in iteration order.
RECURSIVE KeysInOrder(_)
KeysInOrder(keys) ==
  IF keys = {} THEN <<>>
  ELSE LET k == CHOOSE a \in keys : \A b \in keys \ {a} : StrLess(a, b)
       IN  <<k>> \o KeysInOrder(keys \ {k})

RECURSIVE HeaderLines(_, _)
HeaderLines(headers, keys) ==
  IF keys = <<>> THEN <<>>
  ELSE keys[1] \o <<":", " ">> \o headers[keys[1]] \o CRLF
       \o HeaderLines(headers, Tail(keys))

\* The bytes send_response builds (lines 357-366).
Serialize(res) ==
  <<"H", "T", "T", "P", "/", "1", ".", "1", " ">> \o IntDigits(res.status) \o <<" ">>
    \o status_message(res.status) \o CRLF
    \o HeaderLines(res.headers, KeysInOrder(DOMAIN res.headers))
    \o <<"C", "o", "n", "t", "e", "n", "t", "-", "L", "e", "n", "g", "t", "h", ":", " ">> \o IntDigits(Len(res.body)) \o CRLF
    \o <<"C", "o", "n", "n", "e", "c", "t", "i", "o", "n", ":", " ", "c", "l", "o", "s", "e", "\r", "\n", "\r", "\n">>
    \o res.body

\* The Response send_error builds (lines 379-381).
ErrorResponse(status, message) ==
  set_content([NewResponse EXCEPT !.status = status], message, TextPlain)

\* ---------------------------------------------------------------- dispatch

\* The table dispatch searches (line 278).
SelectHandlers(method) ==
  IF method = POST THEN post_handlers_ ELSE get_handlers_

\* handlers->find(path) != handlers->end() (lines 277-280).
RouteFound(req) == strip_query(req.path) \in SelectHandlers(req.method)

\* A relative name that keeps the leading slash.
RelativeNameKeepingSlash(path) ==
  LET rest == SubstrFrom(path, Len(mount_point_))
  IN  IF rest = <<>> THEN IndexHtml ELSE rest

\* The relative name of the prefix case (lines 304-310).
RelativeName(path) ==
  LET rest == SubstrFrom(path, Len(mount_point_))
      cut == IF rest # <<>> /\ rest[1] = "/" THEN Tail(rest) ELSE rest
  IN  IF cut = <<>> THEN IndexHtml ELSE cut

\* A guard that rejects only the name "..".
TraversalOnlyWhole(relative) == relative = DotDot

\* The traversal guard (line 311).
TraversalSuspected(relative) == Find(relative, DotDot, 0) # npos

\* A name built without the separator of lines 331-333.
FullPathWithoutSeparator(relative_path) == mount_dir_ \o relative_path

\* The name serve_file opens (lines 330-334).
FullPath(relative_path) ==
  IF mount_dir_ # <<>> /\ mount_dir_[Len(mount_dir_)] # "/"
  THEN mount_dir_ \o <<"/">> \o relative_path
  ELSE mount_dir_ \o relative_path

\* Server::serve_file; file is what the file system holds under the name:
\* [exists, content].
serve_file(relative_path, res, file) ==
  IF ~file.exists THEN [ok |-> FALSE, response |-> res]
  ELSE [ok |-> TRUE,
        response |-> set_header([res EXCEPT !.body = file.content,
                                            !.status = 200],
                                ContentTypeKey, detect_mime(relative_path))]

\* A 404 that leaves the body empty.
NotFoundWithoutBody(res) == [res EXCEPT !.status = 404]

NotFound(res) == [res EXCEPT !.status = 404, !.body = NotFoundBody]

Forbidden(res) == [res EXCEPT !.status = 403, !.body = ForbiddenBody]

\* What a handler did to the Response it was given; h is the handler's
\* effect: [throws, status, body, headers].
RunHandler(res, h) ==
  [status |-> h.status, body |-> h.body, headers |-> h.headers]

\* Server::dispatch.  The result records the return value, the response,
\* whether a handler was invoked (and the pattern it is registered for),
\* whether it threw, and the files opened.
dispatch(req, h, file) ==
  LET path == strip_query(req.path)
      res == NewResponse
      miss == [ok |-> FALSE, response |-> NotFound(res), ran |-> FALSE,
               route |-> <<>>, threw |-> FALSE, opened |-> <<>>]
  IN  IF RouteFound(req)
      THEN [ok |-> TRUE,
            response |-> ensure_default_headers(RunHandler(res, h)),
            ran |-> TRUE, route |-> path, threw |-> h.throws,
            opened |-> <<>>]
      ELSE IF mount_point_ = <<>> THEN miss
      ELSE IF path = mount_point_
      THEN LET served == serve_file(IndexHtml, res, file)
           IN  IF served.ok
               THEN [ok |-> TRUE,
                     response |-> ensure_default_headers(served.response),
                     ran |-> FALSE, route |-> <<>>, threw |-> FALSE,
                     opened |-> <<FullPath(IndexHtml)>>]
               ELSE [miss EXCEPT !.opened = <<FullPath(IndexHtml)>>]
      ELSE IF StartsWith(path, mount_point_)
      THEN LET relative == RelativeName(path)
               served == serve_file(relative, res, file)
           IN  IF TraversalSuspected(relative)
               THEN [miss EXCEPT !.response = Forbidden(res)]
               ELSE IF served.ok
               THEN [ok |-> TRUE,
                     response |-> ensure_default_headers(served.response),
                     ran |-> FALSE, route |-> <<>>, threw |-> FALSE,
                     opened |-> <<FullPath(relative)>>]
               ELSE [miss EXCEPT !.opened = <<FullPath(relative)>>]
      ELSE miss

\* The Response handle_client sends after dispatch (lines 150-155).
Answer(d) ==
  IF d.ok THEN d.response
  ELSE ErrorResponse(d.response.status,
                     IF d.response.body = <<>> THEN <<"N", "o", "t", " ", "F", "o", "u", "n", "d">>
                     ELSE d.response.body)

\* ------------------------------------------------------------ json values

\* The values of nlohmann::json (json.hpp 525): the alternative held and
\* what it holds.  An object is a function from its keys; a number is a
\* double, kept as its sign and the decimal digits of its integer and
\* fraction parts (exact for numerals of at most 15 significant digits).
JNull == [t |-> "null"]

JBool(b) == [t |-> "boolean", b |-> b]

JNum(d) == [t |-> "number", d |-> d]

JStr(s) == [t |-> "string", s |-> s]

JArr(a) == [t |-> "array", a |-> a]

JObj(o) == [t |-> "object", o |-> o]

is_number(j) == j.t = "number"

is_string(j) == j.t = "string"

is_boolean(j) == j.t = "boolean"

is_object(j) == j.t = "object"

\* A double: ip and fp are the digits of the integer part (no leading zero)
\* and of the fraction (no trailing zero).
Double(neg, ip, fp) == [neg |-> neg, ip |-> ip, fp |-> fp]

RECURSIVE StripLeadingZeros(_)
StripLeadingZeros(ds) ==
  IF ds # <<>> /\ ds[1] = "0" THEN StripLeadingZeros(Tail(ds)) ELSE ds

RECURSIVE StripTrailingZeros(_)
StripTrailingZeros(ds) ==
  IF ds # <<>> /\ ds[Len(ds)] = "0"
  THEN StripTrailingZeros(SubSeq(ds, 1, Len(ds) - 1))
  ELSE ds

Zeros(n) == [i \in 1..n |-> "0"]

\* a <= b for digit strings without leading zeros.
RECURSIVE DigitsLeq(_, _)
DigitsLeq(a, b) ==
  IF Len(a) # Len(b) THEN Len(a) < Len(b)
  ELSE IF a = <<>> THEN TRUE
  ELSE IF a[1] # b[1] THEN DigitVal(a[1]) < DigitVal(b[1])
  ELSE DigitsLeq(Tail(a), Tail(b))

\* The number a digit string of at most nine digits, or one no greater than
\* INT_MAX, denotes.
RECURSIVE DigitsValue(_)
DigitsValue(ds) ==
  IF ds = <<>> THEN 0
  ELSE 10 * DigitsValue(SubSeq(ds, 1, Len(ds) - 1)) + DigitVal(ds[Len(ds)])

\* The end of the run of digits that starts at position i.
RECURSIVE SkipDigits(_, _)
SkipDigits(text, i) ==
  IF i < Len(text) /\ IsDigit(text[i + 1]) THEN SkipDigits(text, i + 1) ELSE i

INT_MAX == 2147483647

INT_MIN == -2147483647 - 1

IntMaxDigits == <<"2", "1", "4", "7", "4", "8", "3", "6", "4", "7">>

LongMaxDigits == <<"9", "2", "2", "3", "3", "7", "2", "0", "3", "6", "8", "5", "4", "7", "7", "5", "8", "0", "7">>

\* The leading digits of DBL_MAX, 1.7976931348623157e308.
DoubleMaxDigits == <<"1", "7", "9", "7", "6", "9", "3", "1", "3", "4", "8", "6", "2", "3", "1", "5", "7">>

\* The largest and smallest decimal orders of magnitude of a double.
DoubleMaxOrder == 309

DoubleMinOrder == -323

\* The exponent of a numeral: the digits after e, with their sign; a run of
\* more than four digits is beyond every double and ends at 9999.
ExponentValue(neg, ds) ==
  LET s == StripLeadingZeros(ds)
      v == IF Len(s) > 4 THEN 9999 ELSE DigitsValue(s)
  IN  IF neg THEN 0 - v ELSE v

\* std::stod on a string of the form parse_number hands it: an optional '-',
\* digits, an optional '.' and digits, an optional exponent.  Without a
\* digit in the mantissa nothing converts (std::invalid_argument); an
\* exponent without digits is not part of the number; a magnitude beyond
\* DBL_MAX or below the smallest double is a range error
\* (std::out_of_range).  Only 17 digits decide the comparison with DBL_MAX,
\* and every magnitude below 1e-323 counts as too small.
stod(s) ==
  LET range_error == [threw |-> TRUE, value |-> Double(FALSE, <<>>, <<>>)]
      ip(m, order) ==
        IF order <= 0 THEN <<>>
        ELSE IF order >= Len(m) THEN m \o Zeros(order - Len(m))
        ELSE SubSeq(m, 1, order)
      fp(m, order) ==
        IF order <= 0 THEN Zeros(0 - order) \o m
        ELSE IF order >= Len(m) THEN <<>>
        ELSE SubSeq(m, order + 1, Len(m))
      \* m: the significant digits, order: how many of them (or zeros
      \* after them) stand before the point
      rounded(neg, m, order) ==
        IF \/ order > DoubleMaxOrder
           \/ order = DoubleMaxOrder
                /\ ~DigitsLeq(SubSeq(m \o Zeros(Len(DoubleMaxDigits) - Len(m)),
                                     1, Len(DoubleMaxDigits)),
                              DoubleMaxDigits)
           \/ order < DoubleMinOrder
        THEN range_error
        ELSE [threw |-> FALSE,
              value |-> Double(neg, ip(m, order),
                               StripTrailingZeros(fp(m, order)))]
      scaled(neg, int, frac, m, exp) ==
        IF int = <<>> /\ frac = <<>> THEN range_error
        ELSE IF m = <<>>
        THEN [threw |-> FALSE, value |-> Double(neg, <<>>, <<>>)]
        ELSE rounded(neg, m, Len(m) - Len(frac) + exp)
      digits(neg, q) ==
        IF SkipDigits(s, q) > q
        THEN ExponentValue(neg, Substr(s, q, SkipDigits(s, q) - q))
        ELSE 0
      exponent(p) ==
        IF ~(p < Len(s) /\ s[p + 1] \in {"e", "E"}) THEN 0
        ELSE IF p + 1 < Len(s) /\ s[p + 2] \in {"+", "-"}
        THEN digits(s[p + 2] = "-", p + 2)
        ELSE digits(FALSE, p + 1)
      mantissa(neg, int, frac, p) ==
        scaled(neg, int, frac, StripLeadingZeros(int \o frac), exponent(p))
      parts(neg, p0, p1, p2) ==
        mantissa(neg, Substr(s, p0, p1 - p0),
                 IF p2 > p1 THEN Substr(s, p1 + 1, p2 - p1 - 1) ELSE <<>>, p2)
      fraction(neg, p0, p1) ==
        parts(neg, p0, p1,
              IF p1 < Len(s) /\ s[p1 + 1] = "." THEN SkipDigits(s, p1 + 1)
              ELSE p1)
      signed(neg, p0) == fraction(neg, p0, SkipDigits(s, p0))
  IN  IF s # <<>> /\ s[1] = "-" THEN signed(TRUE, 1) ELSE signed(FALSE, 0)

\* ------------------------------------------------------------- json parser

\* The outcome of a parsing function: whether it threw, the value, and the
\* Parser's index afterwards.
Parsed(v, i) == [threw |-> FALSE, v |-> v, i |-> i]

ParseError == [threw |-> TRUE, v |-> JNull, i |-> 0]

\* Parser::at_end
at_end(text, i) == i >= Len(text)

\* Parser::skip_ws: the index after the white space.
RECURSIVE skip_ws(_, _)
skip_ws(text, i) ==
  IF ~at_end(text, i) /\ IsSpace(text[i + 1]) THEN skip_ws(text, i + 1) ELSE i

\* Parser::match
match(text, i, expected) == ~at_end(text, i) /\ text[i + 1] = expected

\* Parser::consume_literal: the index after the literal, or npos when it
\* throws.
consume_literal(text, i, literal) ==
  IF Substr(text, i, Len(literal)) = literal THEN i + Len(literal) ELSE npos

\* The switch of parse_string_body (json.hpp 340-351): the byte an escape
\* stands for, "" for one that is not supported.
unescape(esc) ==
  CASE esc = "\"" -> "\""
    [] esc = "\\" -> "\\"
    [] esc = "/" -> "/"
    [] esc = "b" -> Backspace
    [] esc = "f" -> "\f"
    [] esc = "n" -> "\n"
    [] esc = "r" -> "\r"
    [] esc = "t" -> "\t"
    [] OTHER -> ""

\* Parser::parse_string_body, with the bytes collected so far.
RECURSIVE parse_string_body(_, _, _)
parse_string_body(text, i, result) ==
  IF at_end(text, i) THEN ParseError
  ELSE IF text[i + 1] = "\"" THEN Parsed(result, i + 1)
  ELSE IF text[i + 1] # "\\"
  THEN parse_string_body(text, i + 1, Append(result, text[i + 1]))
  ELSE IF at_end(text, i + 1) THEN ParseError
  ELSE IF unescape(text[i + 2]) = "" THEN ParseError
  ELSE parse_string_body(text, i + 2, Append(result, unescape(text[i + 2])))

\* Where parse_number leaves the index (json.hpp 362-380): after an
\* optional '-', digits, an optional '.' with digits, and an optional
\* exponent with an optional sign and digits.
number_end(text, start) ==
  LET exponent(p) ==
        IF ~(match(text, p, "e") \/ match(text, p, "E")) THEN p
        ELSE IF match(text, p + 1, "+") \/ match(text, p + 1, "-")
        THEN SkipDigits(text, p + 2)
        ELSE SkipDigits(text, p + 1)
      fraction(p) ==
        exponent(IF match(text, p, ".") THEN SkipDigits(text, p + 1) ELSE p)
  IN  fraction(SkipDigits(text, IF text[start + 1] = "-" THEN start + 1
                                ELSE start))

\* Parser::parse_number: the index moves over the numeral whatever part of
\* it std::stod converts.
parse_number(text, start) ==
  LET converted(index, d) ==
        IF d.threw THEN ParseError ELSE Parsed(JNum(d.value), index)
      upto(index) == converted(index, stod(Substr(text, start, index - start)))
  IN  upto(number_end(text, start))

\* result.emplace(key, value) of parse_object: the first value of a key
\* stays.
emplace(result, key, value) ==
  IF key \in DOMAIN result THEN result
  ELSE [k \in DOMAIN result \cup {key} |->
          IF k = key THEN value ELSE result[k]]

RECURSIVE parse_value(_, _), parse_members(_, _, _), parse_elements(_, _, _)

\* Parser::parse_value, with parse_string, and parse_object and parse_array
\* up to their loops.
parse_value(text, at) ==
  LET literal(v, index) ==
        IF index = npos THEN ParseError ELSE Parsed(v, index)
      string(s) == IF s.threw THEN ParseError ELSE Parsed(JStr(s.v), s.i)
      object(index) ==
        IF match(text, index, "}") THEN Parsed(JObj(<<>>), index + 1)
        ELSE parse_members(text, index, <<>>)
      array(index) ==
        IF match(text, index, "]") THEN Parsed(JArr(<<>>), index + 1)
        ELSE parse_elements(text, index, <<>>)
      value(index, ch) ==
        CASE ch = "\"" -> string(parse_string_body(text, index + 1, <<>>))
          [] ch = "{" -> object(skip_ws(text, index + 1))
          [] ch = "[" -> array(skip_ws(text, index + 1))
          [] ch = "t" -> literal(JBool(TRUE),
                                 consume_literal(text, index, <<"t", "r", "u", "e">>))
          [] ch = "f" -> literal(JBool(FALSE),
                                 consume_literal(text, index, <<"f", "a", "l", "s", "e">>))
          [] ch = "n" -> literal(JNull,
                                 consume_literal(text, index, <<"n", "u", "l", "l">>))
          [] OTHER -> parse_number(text, index)
      from(index) ==
        IF at_end(text, index) THEN ParseError
        ELSE value(index, text[index + 1])
  IN  from(skip_ws(text, at))

\* The loop of Parser::parse_object (json.hpp 289-304), with the members
\* collected so far.
parse_members(text, at, result) ==
  LET next(members, index) ==
        IF match(text, index, "}") THEN Parsed(JObj(members), index + 1)
        ELSE IF ~match(text, index, ",") THEN ParseError
        ELSE parse_members(text, index + 1, members)
      member(key, value) ==
        IF value.threw THEN ParseError
        ELSE next(emplace(result, key.v, value.v), skip_ws(text, value.i))
      colon(key, index) ==
        IF ~match(text, index, ":") THEN ParseError
        ELSE member(key, parse_value(text, index + 1))
      keyed(key) ==
        IF key.threw THEN ParseError ELSE colon(key, skip_ws(text, key.i))
      from(index) ==
        IF ~match(text, index, "\"") THEN ParseError
        ELSE keyed(parse_string_body(text, index + 1, <<>>))
  IN  from(skip_ws(text, at))

\* The loop of Parser::parse_array (json.hpp 315-322), with the elements
\* collected so far.
parse_elements(text, at, result) ==
  LET next(elements, index) ==
        IF match(text, index, "]") THEN Parsed(JArr(elements), index + 1)
        ELSE IF ~match(text, index, ",") THEN ParseError
        ELSE parse_elements(text, index + 1, elements)
      element(value) ==
        IF value.threw THEN ParseError
        ELSE next(Append(result, value.v), skip_ws(text, value.i))
  IN  element(parse_value(text, at))

\* json::parse
parse(text) ==
  LET whole(value) ==
        IF value.threw THEN ParseError
        ELSE IF ~at_end(text, skip_ws(text, value.i)) THEN ParseError
        ELSE value
  IN  whole(parse_value(text, 0))

\* ------------------------------------------------------- json conversions

\* What a conversion of a double to an integer type yields when the value is
\* out of the type's range, which is undefined behaviour: the indefinite
\* value (the minimum of the type) or saturation, as the build has it.
CastOutcomes == {"indefinite", "saturate"}

\* static_cast<int>(double) (json.hpp 151): truncation toward zero.
cast_to_int(d, cast) ==
  IF DigitsLeq(d.ip, IntMaxDigits)
  THEN IF d.neg THEN 0 - DigitsValue(d.ip) ELSE DigitsValue(d.ip)
  ELSE IF d.neg /\ d.ip = <<"2", "1", "4", "7", "4", "8", "3", "6", "4", "8">> THEN INT_MIN
  ELSE IF cast = "saturate" /\ ~d.neg THEN INT_MAX
  ELSE INT_MIN

\* std::stoi (json.hpp 154): white space, an optional sign, then digits;
\* std::invalid_argument without a digit, std::out_of_range beyond int.
stoi(s) ==
  LET failed == [threw |-> TRUE, value |-> 0]
      converted(neg, ds) ==
        IF DigitsLeq(ds, IntMaxDigits)
        THEN [threw |-> FALSE,
              value |-> IF neg THEN 0 - DigitsValue(ds) ELSE DigitsValue(ds)]
        ELSE IF neg /\ ds = <<"2", "1", "4", "7", "4", "8", "3", "6", "4", "8">>
        THEN [threw |-> FALSE, value |-> INT_MIN]
        ELSE failed
      digits(t, neg, p0, p1) ==
        IF p1 = p0 THEN failed
        ELSE converted(neg, StripLeadingZeros(Substr(t, p0, p1 - p0)))
      signed(t, neg, p0) == digits(t, neg, p0, SkipDigits(t, p0))
      trimmed(t) ==
        IF t # <<>> /\ t[1] = "-" THEN signed(t, TRUE, 1)
        ELSE IF t # <<>> /\ t[1] = "+" THEN signed(t, FALSE, 1)
        ELSE signed(t, FALSE, 0)
  IN  trimmed(TrimLeft(s))

\* json::get<int> (json.hpp 149-156)
get_int(j, cast) ==
  IF is_number(j) THEN [threw |-> FALSE, value |-> cast_to_int(j.d, cast)]
  ELSE IF is_string(j) THEN stoi(j.s)
  ELSE [threw |-> FALSE, value |-> 0]

\* std::to_string(static_cast<long long>(n)) for a double without fraction
\* (json.hpp 139).
to_string_long(d, cast) ==
  IF d.ip = <<>> THEN <<"0">>
  ELSE IF DigitsLeq(d.ip, LongMaxDigits)
  THEN (IF d.neg THEN <<"-">> ELSE <<>>) \o d.ip
  ELSE IF cast = "saturate" /\ ~d.neg THEN LongMaxDigits
  ELSE <<"-", "9", "2", "2", "3", "3", "7", "2", "0", "3", "6", "8", "5", "4", "7", "7", "5", "8", "0", "8">>

\* std::to_string(double) (json.hpp 141): "%f", six digits after the point
\* (a longer fraction is cut here; the inputs of the model have none).
to_string_double(d) ==
  (IF d.neg THEN <<"-">> ELSE <<>>)
    \o (IF d.ip = <<>> THEN <<"0">> ELSE d.ip) \o <<".">>
    \o SubSeq(d.fp \o Zeros(6), 1, 6)

\* json::get<std::string> (json.hpp 131-148)
get_string(j, cast) ==
  IF is_string(j) THEN j.s
  ELSE IF is_number(j)
  THEN IF j.d.fp = <<>> THEN to_string_long(j.d, cast)
       ELSE to_string_double(j.d)
  ELSE IF is_boolean(j) THEN (IF j.b THEN <<"t", "r", "u", "e">> ELSE <<"f", "a", "l", "s", "e">>)
  ELSE <<>>

\* json::value<std::string> (json.hpp 205-216)
value_string(j, key, default_value, cast) ==
  IF ~is_object(j) THEN default_value
  ELSE IF key \notin DOMAIN j.o THEN default_value
  ELSE get_string(j.o[key], cast)

\* json::value<int> (json.hpp 205-216)
value_int(j, key, default_value, cast) ==
  IF ~is_object(j) THEN [threw |-> FALSE, value |-> default_value]
  ELSE IF key \notin DOMAIN j.o THEN [threw |-> FALSE, value |-> default_value]
  ELSE get_int(j.o[key], cast)

\* ------------------------------------------------------------- json::dump

\* operator<< of a double with precision 15 ("%.15g"): fixed notation for
\* a decimal exponent from -5 up to 14, scientific otherwise (exact for up
\* to 15 significant digits).
dump_number(d) ==
  LET sign == IF d.neg THEN <<"-">> ELSE <<>>
      scientific(sig, x, xd) ==
        sign \o <<sig[1]>>
          \o (IF Len(sig) > 1 THEN <<".">> \o Tail(sig) ELSE <<>>)
          \o <<"e">> \o (IF x < 0 THEN <<"-">> ELSE <<"+">>)
          \o (IF Len(xd) < 2 THEN <<"0">> \o xd ELSE xd)
      \* x: the decimal exponent of the first significant digit
      formatted(x) ==
        IF x < -4 \/ x >= 15
        THEN scientific(StripTrailingZeros(StripLeadingZeros(d.ip \o d.fp)),
                        x, NatDigits(IF x < 0 THEN 0 - x ELSE x))
        ELSE sign \o (IF d.ip = <<>> THEN <<"0">> ELSE d.ip)
               \o (IF d.fp = <<>> THEN <<>> ELSE <<".">> \o d.fp)
  IN  IF d.ip = <<>> /\ d.fp = <<>> THEN sign \o <<"0">>
      ELSE IF d.ip # <<>> THEN formatted(Len(d.ip) - 1)
      ELSE formatted(Len(StripLeadingZeros(d.fp)) - Len(d.fp) - 1)

\* The escapes of a string (json.hpp 451-463).
RECURSIVE dump_string_body(_)
dump_string_body(s) ==
  IF s = <<>> THEN <<>>
  ELSE (CASE s[1] = "\"" -> <<"\\", "\"">>
          [] s[1] = "\\" -> <<"\\", "\\">>
          [] s[1] = Backspace -> <<"\\", "b">>
          [] s[1] = "\f" -> <<"\\", "f">>
          [] s[1] = "\n" -> <<"\\", "n">>
          [] s[1] = "\r" -> <<"\\", "r">>
          [] s[1] = "\t" -> <<"\\", "t">>
          [] OTHER -> <<s[1]>>) \o dump_string_body(Tail(s))

dump_string(s) == <<"\"">> \o dump_string_body(s) \o <<"\"">>

RECURSIVE dump(_), dump_elements(_), dump_entries(_, _)

\* json::dump() with the default indent of -1 (json.hpp 427-523): ", "
\* between the entries, nothing after ':'.
dump(j) ==
  CASE j.t = "null" -> <<"n", "u", "l", "l">>
    [] j.t = "boolean" -> (IF j.b THEN <<"t", "r", "u", "e">> ELSE <<"f", "a", "l", "s", "e">>)
    [] j.t = "number" -> dump_number(j.d)
    [] j.t = "string" -> dump_string(j.s)
    [] j.t = "array" -> <<"[">> \o dump_elements(j.a) \o <<"]">>
    [] j.t = "object" ->
         <<"{">> \o dump_entries(j.o, KeysInOrder(DOMAIN j.o)) \o <<"}">>

dump_elements(a) ==
  IF a = <<>> THEN <<>>
  ELSE dump(a[1]) \o (IF Len(a) > 1 THEN <<",", " ">> ELSE <<>>)
         \o dump_elements(Tail(a))

dump_entries(o, keys) ==
  IF keys = <<>> THEN <<>>
  ELSE dump_string(keys[1]) \o <<":">> \o dump(o[keys[1]])
         \o (IF Len(keys) > 1 THEN <<",", " ">> ELSE <<>>)
         \o dump_entries(o, Tail(keys))

\* ------------------------------------------------- Models, Resolver, Registry

\* struct Node (Models.hpp 8-13), default constructed.
NewNode == [title |-> <<>>, arcana |-> <<>>, seed |-> 33, timestamp |-> <<>>]

\* json::get<Node> (Models.hpp 36-45); seed is the field whose extraction
\* can throw.
get_Node(j, cast) ==
  LET filled(seed) ==
        IF seed.threw THEN [threw |-> TRUE, node |-> NewNode]
        ELSE [threw |-> FALSE,
              node |-> [title |-> value_string(j, <<"t", "i", "t", "l", "e">>, <<>>, cast),
                        arcana |-> value_string(j, <<"a", "r", "c", "a", "n", "a">>, <<"0">>, cast),
                        seed |-> seed.value,
                        timestamp |-> value_string(j, <<"t", "i", "m", "e", "s", "t", "a", "m", "p">>, <<>>, cast)]]
  IN  IF ~is_object(j) THEN [threw |-> FALSE, node |-> NewNode]
      ELSE filled(value_int(j, <<"s", "e", "e", "d">>, 33, cast))

\* std::toupper
ToUpper(c) ==
  IF \E i \in 1..26 : Lower[i] = c
  THEN Upper[CHOOSE i \in 1..26 : Lower[i] = c]
  ELSE c

\* upper - 'A' + 1 for a letter, 0 for another byte (Resolver.hpp 13-16).
LetterValue(c) ==
  IF \E i \in 1..26 : Upper[i] = ToUpper(c)
  THEN CHOOSE i \in 1..26 : Upper[i] = ToUpper(c)
  ELSE 0

\* pythag_sum (Resolver.hpp 9-19)
RECURSIVE pythag_sum(_)
pythag_sum(s) ==
  IF s = <<>> THEN 0 ELSE LetterValue(s[1]) + pythag_sum(Tail(s))

\* sum_digits (Resolver.hpp 22-30)
RECURSIVE sum_digits(_)
sum_digits(s) ==
  IF s = <<>> THEN 0
  ELSE (IF IsDigit(s[1]) THEN DigitVal(s[1]) ELSE 0) + sum_digits(Tail(s))

\* day_mod_36 (Resolver.hpp 33-35)
day_mod_36(iso) == 0

\* a % b of C++ for b > 0: the remainder has the sign of a.
Rem(a, b) ==
  IF a >= 0 \/ a % b = 0 THEN a % b ELSE (a % b) - b

\* Resolver::resolve (Resolver.hpp 38-44)
resolve(n) ==
  LET A == pythag_sum(n.title)
      B == sum_digits(n.arcana)
      C == day_mod_36(n.timestamp)
      score == 3 * A + 2 * B + 2 * (C * 2) + Rem(n.seed, 72)
  IN  Rem(score, 72) + 1

\* struct Registry (Registry.hpp 9-12), default constructed.
NewRegistry == [root |-> JNull, ok |-> FALSE]

\* load_registry (Registry.hpp 15-27); file is what the file system holds
\* under the path: [exists, content].
load_registry(file) ==
  LET read(value) ==
        IF value.threw THEN NewRegistry ELSE [root |-> value.v, ok |-> TRUE]
  IN  IF file.exists THEN read(parse(file.content)) ELSE NewRegistry

\* json(int value) (json.hpp 33)
json_of_int(value) ==
  JNum(Double(value < 0,
              IF value = 0 THEN <<>>
              ELSE NatDigits(IF value < 0 THEN 0 - value ELSE value),
              <<>>))

\* ------------------------------------------------------------ web/Server.hpp

\* What a handler that returns, or throws, has done to its Response.
Returned(res) ==
  [throws |-> FALSE, status |-> res.status, body |-> res.body,
   headers |-> res.headers]

Thrown(res) ==
  [throws |-> TRUE, status |-> res.status, body |-> res.body,
   headers |-> res.headers]

ApplicationJson == <<"a", "p", "p", "l", "i", "c", "a", "t", "i", "o", "n", "/", "j", "s", "o", "n">>

\* The handler of GET /core/health-check.html (Server.hpp 16-18)
health_check_handler(req, res) ==
  Returned(set_content(res, <<"o", "k">>, <<"t", "e", "x", "t", "/", "h", "t", "m", "l">>))

registry_handler_unchecked(reg, req, res) ==
  Returned(set_content(res, dump(reg.root), ApplicationJson))

\* The handler of GET /registry (Server.hpp 21-28)
registry_handler(reg, req, res) ==
  IF ~reg.ok
  THEN Returned(set_content([res EXCEPT !.status = 503],
                            <<"{", "\"", "e", "r", "r", "o", "r", "\"", ":", "\"", "n", "o", "_", "r", "e", "g", "i", "s", "t", "r", "y", "\"", "}">>, ApplicationJson))
  ELSE Returned(set_content(res, dump(reg.root), ApplicationJson))

\* The try block of the /resolve handler (Server.hpp 33-36): the Node, the
\* id and the Response, or that an exception left it.
resolve_try(req, res, cast) ==
  LET thrown == [threw |-> TRUE, node |-> NewNode, id |-> 0, res |-> res]
      answered(node, id) ==
        [threw |-> FALSE, node |-> node, id |-> id,
         res |-> set_content(res,
                             dump(JObj((<<"w", "o", "r", "k", "e", "r", "_", "i", "d">> :> json_of_int(id))
                                         @@ (<<"s", "y", "s", "t", "e", "m">> :> JStr(<<"r", "a", "k", "u", "-", "l", "i", "t", "e", "-", "c", "p", "p">>)))),
                             ApplicationJson)]
      resolved(got) ==
        IF got.threw THEN thrown ELSE answered(got.node, resolve(got.node))
      parsed(value) ==
        IF value.threw THEN thrown ELSE resolved(get_Node(value.v, cast))
  IN  parsed(parse(req.body))

resolve_handler_without_catch(req, res, cast) ==
  LET left(try) == IF try.threw THEN Thrown(res) ELSE Returned(try.res)
  IN  left(resolve_try(req, res, cast))

\* The handler of POST /resolve (Server.hpp 31-41)
resolve_handler(req, res, cast) ==
  LET caught(try) ==
        IF try.threw
        THEN Returned(set_content([res EXCEPT !.status = 400],
                                  <<"{", "\"", "e", "r", "r", "o", "r", "\"", ":", "\"", "b", "a", "d", "_", "j", "s", "o", "n", "\"", "}">>, ApplicationJson))
        ELSE Returned(try.res)
  IN  caught(resolve_try(req, res, cast))

\* ------------------------------------------------------------ environment

\* What a client sends: the request line, the header lines and the bytes
\* after the blank line.
Client(line, headers, body) == [line |-> line, headers |-> headers, body |-> body]

Header(key, value) == [key |-> key, value |-> value]

RECURSIVE WireHeaders(_)
WireHeaders(headers) ==
  IF headers = <<>> THEN <<>>
  ELSE headers[1].key \o <<":", " ">> \o headers[1].value \o CRLF
       \o WireHeaders(Tail(headers))

\* The bytes of a client on the wire.
Wire(c) == c.line \o CRLF \o WireHeaders(c.headers) \o CRLF \o c.body

NoClient == Client(<<>>, <<>>, <<>>)

GetRegistry == <<"G", "E", "T", " ", "/", "r", "e", "g", "i", "s", "t", "r", "y">>

PostResolve == <<"P", "O", "S", "T", " ", "/", "r", "e", "s", "o", "l", "v", "e">>

\* The clients of the model.
Clients ==
  { Client(GetRegistry, <<>>, <<>>),
    Client(GetRegistry, <<>>, <<"x", "y">>),
    Client(<<"G", "E", "T", " ", "/", "r", "e", "g", "i", "s", "t", "r", "y", "?", "x", "=", "1", " ", "H", "T", "T", "P", "/", "1", ".", "1">>, <<>>, <<>>),
    Client(<<"G", "E", "T", " ", "/", "r", "e", "g", "i", "s", "t", "r", "y", "/">>, <<>>, <<>>),
    Client(<<"G", "E", "T", " ", "/", "r", "e", "g", "i", "s", "t", "r">>, <<>>, <<>>),
    Client(<<"P", "U", "T", " ", "/", "r", "e", "g", "i", "s", "t", "r", "y">>, <<>>, <<>>),
    Client(<<"G", "E", "T", " ", "/", "r", "e", "s", "o", "l", "v", "e">>, <<>>, <<>>),
    Client(<<"G", "E", "T", " ", "/", "a", "s", "s", "e", "t", "s", "/", ".", ".", "/", ".", ".", "/", "e", "t", "c", "/", "p", "a", "s", "s", "w", "d">>, <<>>, <<>>),
    Client(<<"G", "E", "T", " ", "/", "a", "s", "s", "e", "t", "s", "/", "a", ".", "t", "x", "t">>, <<>>, <<>>),
    Client(<<"G", "E", "T", " ", "/", "a", "s", "s", "e", "t", "s">>, <<>>, <<>>),
    Client(<<"G", "E", "T", " ", "/">>, <<>>, <<>>),
    Client(<<"G", "E", "T", " ", "/", "I", "N", "D", "E", "X", ".", "H", "T", "M", "L">>, <<>>, <<>>),
    Client(<<"G", "E", "T", " ", "/", "a", ".", "c", "s", "s">>, <<>>, <<>>),
    Client(<<"G", "E", "T", " ", "/", "a", ".", "J", "S">>, <<>>, <<>>),
    Client(<<"G", "E", "T", " ", "/", "a", ".", "j", "s", "o", "n">>, <<>>, <<>>),
    Client(PostResolve, <<Header(ContentLengthKey, <<"6">>)>>, <<"a", "b", "c", "d", "e", "f">>),
    Client(PostResolve, <<Header(<<"c", "o", "n", "t", "e", "n", "t", "-", "l", "e", "n", "g", "t", "h">>, <<"2">>)>>, <<"a", "b">>),
    Client(PostResolve, <<Header(<<"H", "o", "s", "t">>, <<"h">>),
                          Header(ContentLengthKey, <<"2">>)>>, <<"a", "b", "c">>),
    Client(PostResolve, <<Header(ContentLengthKey, <<"x">>)>>, <<>>),
    Client(PostResolve, <<Header(ContentLengthKey, <<"2", "x">>)>>, <<"a", "b">>),
    Client(PostResolve,
           <<Header(ContentLengthKey, IntDigits(SizeMod - 1))>>, <<"a", "b">>),
    Client(PostResolve, <<Header(ContentLengthKey, <<"-", "1">>)>>, <<"a", "b">>),
    Client(PostResolve, <<Header(ContentLengthKey, <<"2">>),
                          Header(ContentLengthKey, <<"4">>)>>, <<"a", "b", "c", "d">>),
    Client(PostResolve, <<Header(ContentLengthKey, <<"6", "0", "0", "0", "0">>)>>, <<"a", "b", "c", "d">>),
    Client(<<"C", "o", "n", "t", "e", "n", "t", "-", "L", "e", "n", "g", "t", "h", ":", " ", "2">>, <<>>, <<"a", "b">>),
    Client(<<"G", "E", "T">>, <<>>, <<>>),
    Client(<<>>, <<>>, <<>>) }

\* What a handler does to its Response: the health check and the registry
\* dump set a Content-Type, a handler may set none, set other headers
\* (Content-Length among them), or throw.
HandlerEffects ==
  { [throws |-> FALSE, status |-> 200, body |-> <<"o", "k">>,
     headers |-> MapSet(EmptyMap, ContentTypeKey, <<"t", "e", "x", "t", "/", "h", "t", "m", "l">>)],
    [throws |-> FALSE, status |-> 200, body |-> <<"o", "k">>, headers |-> EmptyMap],
    [throws |-> FALSE, status |-> 503, body |-> <<>>,
     headers |-> MapSet(EmptyMap, <<"X", "-", "A">>, <<"1">>)],
    [throws |-> FALSE, status |-> 200, body |-> <<"o", "k">>,
     headers |-> MapSet(EmptyMap, ContentLengthKey, <<"5">>)],
    [throws |-> TRUE, status |-> 200, body |-> <<>>, headers |-> EmptyMap] }

\* What the file system holds under a name.
Files ==
  { [exists |-> FALSE, content |-> <<>>],
    [exists |-> TRUE, content |-> <<"h", "i">>] }

\* The servers of the model: the routes of web/Server.hpp, and as mount the
\* one of web/Server.hpp, a prefix of its own, or none.
Mounts ==
  { <<<<"/">>, <<".", "/", "p", "u", "b", "l", "i", "c">>>>,
    <<<<"/", "a", "s", "s", "e", "t", "s">>, <<".", "/", "p", "u", "b", "l", "i", "c">>>>,
    <<<<>>, <<".">>>> }

\* The sizes a send of n remaining bytes reports: all of them, or SendPiece
\* of them.
SendSizes(n) == {n, Min(n, SendPiece)}

\* ------------------------------------------------------------------ actions

NoEffect == [throws |-> FALSE, status |-> 200, body |-> <<>>, headers |-> EmptyMap]

\* No file has been looked up.
NoFile == [exists |-> FALSE, content |-> <<>>]

NoCalls ==
  [read |-> "pending", full |-> TRUE, buffered |-> 0, responses |-> 0,
   ran |-> FALSE,
   route |-> <<>>, handler |-> NoEffect, opened |-> <<>>, file |-> NoFile,
   sends |-> 0, send_failed |-> FALSE, written |-> <<>>, stopped |-> ""]

\* Nothing has been served.
NoServed == [request |-> NoRequest, response |-> NewResponse, threw |-> FALSE]

\* main has not started.
NoApp ==
  [pc |-> "main", file |-> NoFile, last |-> NoServed, again |-> FALSE,
   before |-> NewResponse, resolved |-> FALSE, node |-> NewNode, id |-> 0]

ConnectionReset ==
  /\ client' = NoClient
  /\ delivered' = 0
  /\ buffer' = <<>>
  /\ header_end' = npos
  /\ content_length' = 0
  /\ received' = 0
  /\ request' = NoRequest
  /\ response' = NewResponse
  /\ out' = <<>>
  /\ sent' = 0
  /\ calls' = NoCalls

\* The server after construction, Get, Post and set_mount_point, with listen
\* bound and in its first accept (lines 102-108).
Init ==
  /\ server_fd_ = 3
  /\ running_ = TRUE
  /\ get_handlers_ = {<<"/", "r", "e", "g", "i", "s", "t", "r", "y">>}
  /\ post_handlers_ = {<<"/", "r", "e", "s", "o", "l", "v", "e">>}
  /\ \E m \in Mounts : mount_point_ = m[1] /\ mount_dir_ = m[2]
  /\ pc = "accept"
  /\ accepted = 0
  /\ client_fd = 0
  /\ accept_errno = ""
  /\ open = {}
  /\ client = NoClient
  /\ delivered = 0
  /\ buffer = <<>>
  /\ header_end = npos
  /\ content_length = 0
  /\ received = 0
  /\ request = NoRequest
  /\ response = NewResponse
  /\ out = <<>>
  /\ sent = 0
  /\ calls = NoCalls
  /\ reg_ = NewRegistry
  /\ cast_ = "indefinite"
  /\ app = NoApp

\* Server::stop (lines 123-129), called from outside the accept loop.
stop ==
  /\ pc \notin {"returned", "terminated"}
  /\ running_
  /\ server_fd_' = -1
  /\ running_' = FALSE
  /\ calls' = [calls EXCEPT !.stopped = IF pc = "accept" THEN "" ELSE pc]
  /\ UNCHANGED <<serverVars, appVars, pc, accepted, client_fd, accept_errno, open,
                 client, delivered, buffer, header_end, content_length,
                 received, request, response, out, sent>>

\* An accept that returns a client socket whatever became of the listening
\* socket.
AcceptOnAnySocket ==
  /\ pc = "accept"
  /\ accepted < MaxConns
  /\ \E c \in Clients : client' = c
  /\ accepted' = accepted + 1
  /\ client_fd' = accepted + 1
  /\ accept_errno' = ""
  /\ open' = open \cup {accepted + 1}
  /\ delivered' = 0
  /\ buffer' = <<>>
  /\ header_end' = npos
  /\ content_length' = 0
  /\ received' = 0
  /\ pc' = "recv"
  /\ UNCHANGED <<server_fd_, running_, serverVars, appVars, request, response, out,
                 sent, calls>>

\* accept returns a client socket (lines 108, 115): handle_client starts
\* with an empty buffer and read_request with its initial locals.  A call
\* on the descriptor stop() has closed does not return one.
Accept ==
  /\ pc = "accept"
  /\ server_fd_ >= 0
  /\ accepted < MaxConns
  /\ \E c \in Clients : client' = c
  /\ accepted' = accepted + 1
  /\ client_fd' = accepted + 1
  /\ accept_errno' = ""
  /\ open' = open \cup {accepted + 1}
  /\ delivered' = 0
  /\ buffer' = <<>>
  /\ header_end' = npos
  /\ content_length' = 0
  /\ received' = 0
  /\ pc' = "recv"
  /\ UNCHANGED <<server_fd_, running_, serverVars, appVars, request, response, out,
                 sent, calls>>

\* accept fails with EINTR (lines 110-112): the loop tests running_ again.
AcceptInterrupted ==
  /\ pc = "accept"
  /\ IF running_
     THEN UNCHANGED <<pc, server_fd_>>
     ELSE pc' = "returned" /\ server_fd_' = -1
  /\ client_fd' = -1
  /\ accept_errno' = "EINTR"
  /\ UNCHANGED <<running_, serverVars, appVars, accepted, open, client, delivered,
                 buffer, header_end, content_length, received, request,
                 response, out, sent, calls>>

\* A listen that returns after a failed accept without calling stop().
AcceptFailedWithoutStop ==
  /\ pc = "accept"
  /\ pc' = "returned"
  /\ client_fd' = -1
  /\ accept_errno' = "other"
  /\ UNCHANGED <<server_fd_, running_, serverVars, appVars, accepted, open, client,
                 delivered, buffer, header_end, content_length, received,
                 request, response, out, sent, calls>>

\* accept fails otherwise (line 113): the loop ends, stop() runs and listen
\* returns (lines 119-120).
AcceptFailed ==
  /\ pc = "accept"
  /\ pc' = "returned"
  /\ client_fd' = -1
  /\ accept_errno' = "other"
  /\ server_fd_' = -1
  /\ running_' = FALSE
  /\ UNCHANGED <<serverVars, appVars, accepted, open, client, delivered, buffer,
                 header_end, content_length, received, request, response,
                 out, sent, calls>>

\* handle_client answers 400 when read_request has returned false (lines
\* 144-147).
BadRequest ==
  /\ response' = ErrorResponse(400, <<"B", "a", "d", " ", "R", "e", "q", "u", "e", "s", "t">>)
  /\ out' = Serialize(response')
  /\ sent' = 0
  /\ pc' = "send"
  /\ UNCHANGED request

\* read_request has left its loop with this buffer and these locals; full
\* tells whether every recv filled the chunk or took the client's last
\* bytes.  Its checks and parse_request run
\* (lines 194-212), and handle_client either goes on to dispatch or answers
\* 400.  Nothing reads the buffer afterwards, and no recv follows.
LeaveReadLoop(buf, he, cl, full) ==
  LET r == FinishRead(buf, he, cl)
  IN  /\ header_end' = r.header_end
      /\ content_length' = r.content_length
      /\ buffer' = <<>>
      /\ delivered' = 0
      /\ IF r.ok
         THEN /\ request' = r.request
              /\ pc' = "dispatch"
              /\ calls' = [calls EXCEPT !.read = "ok", !.full = full,
                                        !.buffered = Len(buf)]
              /\ UNCHANGED <<response, out, sent>>
         ELSE /\ BadRequest
              /\ calls' = [calls EXCEPT !.read = "failed", !.full = full,
                                        !.buffered = Len(buf),
                                        !.responses = @ + 1]

\* recv returns k bytes (lines 166, 176-191).
Recv(k) ==
  /\ pc = "recv"
  /\ k \in 1..Min(ChunkSize, Len(Wire(client)) - delivered)
  /\ received' = k
  /\ LET buf == buffer \o SubSeq(Wire(client), delivered + 1, delivered + k)
         he == LocateHeaderEnd(buf, header_end)
         cl == LocateContentLength(buf, header_end, content_length)
         full == /\ calls.full
                 /\ k = ChunkSize \/ delivered + k = Len(Wire(client))
     IN  IF RequestComplete(buf, he, cl) \/ k < ChunkSize
         THEN LeaveReadLoop(buf, he, cl, full)
         ELSE /\ buffer' = buf
              /\ header_end' = he
              /\ content_length' = cl
              /\ delivered' = delivered + k
              /\ calls' = [calls EXCEPT !.full = full]
              /\ UNCHANGED <<pc, request, response, out, sent>>
  /\ UNCHANGED <<server_fd_, running_, serverVars, appVars, accepted, client_fd, accept_errno, open, client>>

\* recv returns 0, the end of the stream (lines 173-175).
RecvEnd ==
  /\ pc = "recv"
  /\ received' = 0
  /\ LeaveReadLoop(buffer, header_end, content_length, calls.full)
  /\ UNCHANGED <<server_fd_, running_, serverVars, appVars, accepted, client_fd, accept_errno, open, client>>

\* What a peer that keeps sending puts in one more chunk.
Filler == [i \in 1..ChunkSize |-> "x"]

\* recv returns a full chunk from a peer that goes on sending after the
\* bytes of its request (lines 166, 176-191).  The append of line 176 throws
\* once the buffer cannot grow, and nothing catches that in read_request,
\* handle_client or listen.
RecvBeyond ==
  /\ pc = "recv"
  /\ delivered = Len(Wire(client))
  /\ received' = ChunkSize
  /\ LET buf == buffer \o Filler
         he == LocateHeaderEnd(buf, header_end)
         cl == LocateContentLength(buf, header_end, content_length)
     IN  IF Len(buf) > MaxBuffer
         THEN /\ pc' = "terminated"
              /\ calls' = [calls EXCEPT !.read = "threw",
                                        !.buffered = Len(buffer)]
              /\ UNCHANGED <<buffer, header_end, content_length, delivered,
                             request, response, out, sent>>
         ELSE IF RequestComplete(buf, he, cl)
         THEN LeaveReadLoop(buf, he, cl, calls.full)
         ELSE /\ buffer' = buf
              /\ header_end' = he
              /\ content_length' = cl
              /\ UNCHANGED <<pc, delivered, request, response, out, sent,
                             calls>>
  /\ UNCHANGED <<server_fd_, running_, serverVars, appVars, accepted, client_fd, accept_errno, open, client>>

\* recv fails with EINTR (lines 168-170): the call is made again.
RecvInterrupted ==
  /\ pc = "recv"
  /\ received' = -1
  /\ UNCHANGED <<server_fd_, running_, serverVars, appVars, pc, accepted, client_fd, accept_errno, open, client,
                 delivered, buffer, header_end, content_length, request,
                 response, out, sent, calls>>

\* recv fails otherwise: read_request returns false at once (line 171).
RecvFailed ==
  /\ pc = "recv"
  /\ received' = -1
  /\ buffer' = <<>>
  /\ delivered' = 0
  /\ BadRequest
  /\ calls' = [calls EXCEPT !.read = "failed", !.buffered = Len(buffer),
                            !.responses = @ + 1]
  /\ UNCHANGED <<server_fd_, running_, serverVars, appVars, accepted, client_fd, accept_errno, open, client,
                 header_end, content_length>>

\* dispatch returns (lines 149-155): the handler of a matching route has
\* run, or the static file resolver has; send_response is entered.
Dispatch ==
  /\ pc = "dispatch"
  /\ \E h \in HandlerEffects, file \in Files :
       LET d == dispatch(request, h, file)
       IN  /\ ~d.threw
           /\ response' = Answer(d)
           /\ calls' = [calls EXCEPT !.responses = @ + 1, !.ran = d.ran,
                                     !.route = d.route,
                                     !.handler = IF d.ran THEN h ELSE NoEffect,
                                     !.opened = d.opened,
                                     !.file = IF d.opened # <<>> THEN file
                                              ELSE NoFile]
  /\ out' = Serialize(response')
  /\ sent' = 0
  /\ pc' = "send"
  /\ UNCHANGED <<server_fd_, running_, serverVars, appVars, accepted, client_fd, accept_errno, open, client,
                 delivered, buffer, header_end, content_length, received,
                 request>>

\* A dispatch that catches what the handler throws and answers 500.
HandlerThrowsAnswered ==
  /\ pc = "dispatch"
  /\ \E h \in HandlerEffects, file \in Files :
       LET d == dispatch(request, h, file)
       IN  /\ d.threw
           /\ calls' = [calls EXCEPT !.responses = @ + 1, !.ran = d.ran,
                                     !.route = d.route, !.handler = h]
  /\ response' = ErrorResponse(500, <<"I", "n", "t", "e", "r", "n", "a", "l", " ", "S", "e", "r", "v", "e", "r", " ", "E", "r", "r", "o", "r">>)
  /\ out' = Serialize(response')
  /\ sent' = 0
  /\ pc' = "send"
  /\ UNCHANGED <<server_fd_, running_, serverVars, appVars, accepted, client_fd, accept_errno, open, client,
                 delivered, buffer, header_end, content_length, received,
                 request>>

\* The handler of a matching route throws (line 281): nothing catches the
\* exception in dispatch, handle_client or listen.
HandlerThrows ==
  /\ pc = "dispatch"
  /\ \E h \in HandlerEffects, file \in Files :
       LET d == dispatch(request, h, file)
       IN  /\ d.threw
           /\ calls' = [calls EXCEPT !.ran = d.ran, !.route = d.route,
                                     !.handler = h]
  /\ pc' = "terminated"
  /\ UNCHANGED <<server_fd_, running_, serverVars, appVars, accepted, client_fd, accept_errno, open, client,
                 delivered, buffer, header_end, content_length, received,
                 request, response, out, sent>>

\* send is given the bytes of out from sent on and reports w of them
\* written (lines 369, 373); the loop ends when all of out is sent.
\* A send loop that passes out.data() without the offset.
SendFromStart(w) ==
  /\ pc = "send"
  /\ w \in 1..(Len(out) - sent)
  /\ sent' = sent + w
  /\ calls' = [calls EXCEPT !.sends = @ + 1,
                            !.written = @ \o SubSeq(out, 1, w)]
  /\ pc' = IF sent' < Len(out) THEN "send" ELSE "close"
  /\ UNCHANGED <<server_fd_, running_, serverVars, appVars, accepted, client_fd, accept_errno, open, client,
                 delivered, buffer, header_end, content_length, received,
                 request, response, out>>

Send(w) ==
  /\ pc = "send"
  /\ w \in 1..(Len(out) - sent)
  /\ sent' = sent + w
  /\ calls' = [calls EXCEPT !.sends = @ + 1,
                            !.written = @ \o SubSeq(out, sent + 1, sent + w)]
  /\ pc' = IF sent' < Len(out) THEN "send" ELSE "close"
  /\ UNCHANGED <<server_fd_, running_, serverVars, appVars, accepted, client_fd, accept_errno, open, client,
                 delivered, buffer, header_end, content_length, received,
                 request, response, out>>

\* send reports an error or 0 (lines 370-372): the loop is left.
SendFailed ==
  /\ pc = "send"
  /\ pc' = "close"
  /\ calls' = [calls EXCEPT !.sends = @ + 1, !.send_failed = TRUE]
  /\ UNCHANGED <<server_fd_, running_, serverVars, appVars, accepted, client_fd, accept_errno, open, client,
                 delivered, buffer, header_end, content_length, received,
                 request, response, out, sent>>

\* A listen that does not close the client socket.
CloseWithoutClosing ==
  /\ pc = "close"
  /\ open' = open
  /\ pc' = IF running_ THEN "accept" ELSE "returned"
  /\ ConnectionReset
  /\ UNCHANGED <<server_fd_, running_, serverVars, appVars, accepted, client_fd, accept_errno>>

\* handle_client has returned: the client socket is closed and the loop
\* tests running_ (lines 116, 105); when it is false stop() runs and listen
\* returns (lines 119-120).
Close ==
  /\ pc = "close"
  /\ open' = open \ {accepted}
  /\ pc' = IF running_ THEN "accept" ELSE "returned"
  /\ ConnectionReset
  /\ UNCHANGED <<server_fd_, running_, serverVars, appVars, accepted, client_fd, accept_errno>>

Next ==
  \/ stop
  \/ Accept
  \/ AcceptInterrupted
  \/ AcceptFailed
  \/ \E k \in 1..ChunkSize : Recv(k)
  \/ RecvBeyond
  \/ RecvEnd
  \/ RecvInterrupted
  \/ RecvFailed
  \/ Dispatch
  \/ HandlerThrows
  \/ \E w \in SendSizes(Len(out) - sent) : Send(w)
  \/ SendFailed
  \/ Close

Spec == Init /\ [][Next]_vars

\* Every call made on a socket returns, and a recv is not interrupted for
\* ever; handle_client and listen run on: the server is one thread that
\* does nothing else (lines 105-117).
RecvReturns ==
  RecvFailed \/ RecvEnd \/ RecvBeyond \/ (\E k \in 1..ChunkSize : Recv(k))

DispatchReturns == Dispatch \/ HandlerThrows

SendReturns == SendFailed \/ (\E w \in SendSizes(Len(out) - sent) : Send(w))

FairSpec ==
  /\ Spec
  /\ WF_vars(RecvReturns)
  /\ WF_vars(DispatchReturns)
  /\ WF_vars(SendReturns)
  /\ WF_vars(Close)


\* ------------------------------------------------------------ the application

\* What ./registry/universal.json can be when main starts: absent, a
\* document, or something that is no JSON document.
RegistryFiles ==
  { [exists |-> FALSE, content |-> <<>>],
    [exists |-> TRUE, content |-> <<>>],
    [exists |-> TRUE, content |-> <<"{", "\"", "w", "o", "r", "k", "e", "r", "s", "\"", ":", " ", "[", "1", ",", " ", "2", ".", "5", ",", " ", "t", "r", "u", "e", ",", " ", "n", "u", "l", "l", "]", ",", " ", "\"", "n", "a", "m", "e", "\"", ":", " ", "\"", "a", "\\", "n", "b", "\"", "}", "\n">>],
    [exists |-> TRUE, content |-> <<"{", "\"", "b", "\"", ":", "{", "\"", "d", "\"", ":", "-", "0", ".", "0", "0", "1", ",", "\"", "c", "\"", ":", "1", "e", "2", "0", "}", ",", "\"", "a", "\"", ":", "[", "]", "}">>],
    [exists |-> TRUE, content |-> <<"n", "u", "l", "l">>],
    [exists |-> TRUE, content |-> <<"{", "\"", "w", "o", "r", "k", "e", "r", "s", "\"", ":", " ", "[", "1", ",", " ", "2">>],
    [exists |-> TRUE, content |-> <<"{", "}", " ", "{", "}">>] }

\* The bodies posted to /resolve.
Bodies ==
  { <<"{", "\"", "t", "i", "t", "l", "e", "\"", ":", "\"", "A", "B", "\"", ",", "\"", "a", "r", "c", "a", "n", "a", "\"", ":", "\"", "1", "\"", ",", "\"", "s", "e", "e", "d", "\"", ":", "3", "3", "}">>,
    <<"{", "}">>,
    <<"[", "1", ",", " ", "2", "]">>,
    <<"n", "u", "l", "l">>,
    <<" ", "{", " ", "\"", "s", "e", "e", "d", "\"", " ", ":", " ", "5", " ", "}", " ">>,
    <<"{", "\"", "s", "e", "e", "d", "\"", ":", "7", "1", "}">>,
    <<"{", "\"", "s", "e", "e", "d", "\"", ":", "7", "2", "}">>,
    <<"{", "\"", "s", "e", "e", "d", "\"", ":", "-", "1", "}">>,
    <<"{", "\"", "s", "e", "e", "d", "\"", ":", "-", "7", "2", "}">>,
    <<"{", "\"", "t", "i", "t", "l", "e", "\"", ":", "\"", "A", "\"", ",", "\"", "s", "e", "e", "d", "\"", ":", "-", "7", "3", "}">>,
    <<"{", "\"", "s", "e", "e", "d", "\"", ":", "2", "1", "4", "7", "4", "8", "3", "6", "4", "7", "}">>,
    <<"{", "\"", "s", "e", "e", "d", "\"", ":", "-", "2", "1", "4", "7", "4", "8", "3", "6", "4", "8", "}">>,
    <<"{", "\"", "s", "e", "e", "d", "\"", ":", "3", "0", "0", "0", "0", "0", "0", "0", "0", "0", "}">>,
    <<"{", "\"", "s", "e", "e", "d", "\"", ":", "1", "e", "9", "9", "}">>,
    <<"{", "\"", "s", "e", "e", "d", "\"", ":", "1", ".", "9", "}">>,
    <<"{", "\"", "s", "e", "e", "d", "\"", ":", "-", "0", ".", "5", "}">>,
    <<"{", "\"", "s", "e", "e", "d", "\"", ":", "\"", "7", "\"", "}">>,
    <<"{", "\"", "s", "e", "e", "d", "\"", ":", "\"", "-", "5", "x", "\"", "}">>,
    <<"{", "\"", "s", "e", "e", "d", "\"", ":", "t", "r", "u", "e", "}">>,
    <<"{", "\"", "s", "e", "e", "d", "\"", ":", "1", ",", "\"", "s", "e", "e", "d", "\"", ":", "2", "}">>,
    <<"{", "\"", "t", "i", "t", "l", "e", "\"", ":", "7", ",", "\"", "a", "r", "c", "a", "n", "a", "\"", ":", "1", "2", "}">>,
    <<"{", "\"", "t", "i", "t", "l", "e", "\"", ":", "\"", "a", "\\", "\"", "z", "\"", ",", "\"", "a", "r", "c", "a", "n", "a", "\"", ":", "\"", "x", "9", "\"", "}">>,
    <<"{", "\"", "a", "r", "c", "a", "n", "a", "\"", ":", "1", ".", "5", ",", "\"", "t", "i", "m", "e", "s", "t", "a", "m", "p", "\"", ":", "\"", "2", "0", "2", "4", "-", "0", "1", "-", "0", "1", "\"", "}">>,
    <<>>,
    <<"{">>,
    <<"{", "\"", "s", "e", "e", "d", "\"", ":", "}">>,
    <<"{", "\"", "s", "e", "e", "d", "\"", ":", "1", ",", "}">>,
    <<"{", "s", "e", "e", "d", ":", "1", "}">>,
    <<"t", "r", "u">>,
    <<"[", "1", " ", "2", "]">>,
    <<"{", "}", " ", "x">>,
    <<"\"", "a", "b", "c">>,
    <<"{", "\"", "t", "i", "t", "l", "e", "\"", ":", "\"", "\\", "u", "0", "0", "4", "1", "\"", "}">>,
    <<"{", "\"", "s", "e", "e", "d", "\"", ":", "-", "}">>,
    <<"{", "\"", "s", "e", "e", "d", "\"", ":", "\"", "a", "b", "c", "\"", "}">>,
    <<"{", "\"", "s", "e", "e", "d", "\"", ":", "\"", "9", "9", "9", "9", "9", "9", "9", "9", "9", "9", "9", "\"", "}">>,
    <<"{", "\"", "s", "e", "e", "d", "\"", ":", "1", "e", "9", "9", "9", "}">> }

HealthCheck == <<"/", "c", "o", "r", "e", "/", "h", "e", "a", "l", "t", "h", "-", "c", "h", "e", "c", "k", ".", "h", "t", "m", "l">>

RegistryRoute == <<"/", "r", "e", "g", "i", "s", "t", "r", "y">>

ResolveRoute == <<"/", "r", "e", "s", "o", "l", "v", "e">>

Request(method, path, body) ==
  [method |-> method, path |-> path, body |-> body, headers |-> EmptyMap]

\* The /resolve handler on every body of the model and under either
\* outcome of the cast, with what its try block came to: it reads nothing
\* but the body, so each is evaluated once.
resolve_outcomes ==
  { [cast |-> cast, body |-> body,
     try |-> resolve_try(Request(POST, ResolveRoute, body), NewResponse, cast),
     effect |-> resolve_handler(Request(POST, ResolveRoute, body),
                                NewResponse, cast)] :
      cast \in CastOutcomes, body \in Bodies }

resolve_outcome(req, cast) ==
  CHOOSE o \in resolve_outcomes : o.cast = cast /\ o.body = req.body

\* The handler registered for the request's method and path by the
\* constructor of web/Server.hpp, with what it captures: what it does to
\* the Response dispatch hands it.
registered_handler(req) ==
  LET path == strip_query(req.path)
  IN  IF req.method = <<"G", "E", "T">> /\ path = HealthCheck
      THEN health_check_handler(req, NewResponse)
      ELSE IF req.method = <<"G", "E", "T">> /\ path = RegistryRoute
      THEN registry_handler(reg_, req, NewResponse)
      ELSE IF req.method = POST /\ path = ResolveRoute
      THEN resolve_outcome(req, cast_).effect
      ELSE NoEffect

\* main (main.cpp 6-12) after the construction of the server and before
\* load_registry; the HTTP layer is at rest in its first accept.
AppInit ==
  /\ server_fd_ = 3
  /\ running_ = TRUE
  /\ get_handlers_ = {HealthCheck, RegistryRoute}
  /\ post_handlers_ = {ResolveRoute}
  /\ mount_point_ = <<"/">>
  /\ mount_dir_ = <<".", "/", "p", "u", "b", "l", "i", "c">>
  /\ pc = "accept"
  /\ accepted = 0
  /\ client_fd = 0
  /\ accept_errno = ""
  /\ open = {}
  /\ client = NoClient
  /\ delivered = 0
  /\ buffer = <<>>
  /\ header_end = npos
  /\ content_length = 0
  /\ received = 0
  /\ request = NoRequest
  /\ response = NewResponse
  /\ out = <<>>
  /\ sent = 0
  /\ calls = NoCalls
  /\ reg_ = NewRegistry
  /\ cast_ \in CastOutcomes
  /\ app = NoApp

httpVars ==
  <<server_fd_, running_, serverVars, pc, accepted, client_fd, accept_errno,
    open, client, delivered, buffer, header_end, content_length, received,
    request, response, out, sent, calls>>

\* main.cpp 8: load_registry("./registry/universal.json")
LoadRegistry ==
  /\ app.pc = "main"
  /\ \E f \in RegistryFiles :
       /\ reg_' = load_registry(f)
       /\ app' = [app EXCEPT !.pc = "listen", !.file = f]
  /\ UNCHANGED <<httpVars, cast_>>

\* A request read from a connection is dispatched and answered
\* (httplib.h 150-155); no file is under ./public.
Serve(method, path, body) ==
  LET req == Request(method, path, body)
      d == dispatch(req, registered_handler(req), NoFile)
      served == [request |-> req, response |-> Answer(d), threw |-> d.threw]
      resolved == /\ d.ran
                  /\ d.route = ResolveRoute
                  /\ ~resolve_outcome(req, cast_).try.threw
      try == resolve_outcome(req, cast_).try
  IN  /\ app.pc = "listen"
      /\ app' = [app EXCEPT
                   !.last = served,
                   !.again = (app.last.request = req),
                   !.before = IF app.last.request = req
                              THEN app.last.response ELSE NewResponse,
                   !.resolved = resolved,
                   !.node = IF resolved THEN try.node ELSE NewNode,
                   !.id = IF resolved THEN try.id ELSE 0]
      /\ UNCHANGED <<httpVars, reg_, cast_>>

ServeHealthCheck == Serve(<<"G", "E", "T">>, HealthCheck, <<>>)

ServeRegistry ==
  \E path \in {RegistryRoute, <<"/", "r", "e", "g", "i", "s", "t", "r", "y", "?", "v", "=", "2">>} : Serve(<<"G", "E", "T">>, path, <<>>)

ServeResolve == \E body \in Bodies : Serve(POST, ResolveRoute, body)

\* Requests no handler is registered for.
ServeOther ==
  \/ Serve(<<"G", "E", "T">>, ResolveRoute, <<>>)
  \/ Serve(POST, RegistryRoute, <<"{", "}">>)
  \/ Serve(<<"G", "E", "T">>, <<"/", "i", "n", "d", "e", "x", ".", "h", "t", "m", "l">>, <<>>)

AppNext ==
  \/ LoadRegistry
  \/ ServeHealthCheck
  \/ ServeRegistry
  \/ ServeResolve
  \/ ServeOther

AppSpec == AppInit /\ [][AppNext]_vars

\* ------------------------------------------------- vocabulary of the claims

GET == <<"G", "E", "T">>

Lowered(s) == [i \in 1..Len(s) |-> ToLower(s[i])]

\* The header lines of a client that carry Content-Length.
ContentLengthHeaders(c) ==
  {i \in 1..Len(c.headers) : Lowered(c.headers[i].key) = Lowered(ContentLengthKey)}

IsNumber(v) == v # <<>> /\ \A i \in 1..Len(v) : IsDigit(v[i])

RECURSIVE NumberOf(_)
NumberOf(v) ==
  IF v = <<>> THEN 0
  ELSE 10 * NumberOf(SubSeq(v, 1, Len(v) - 1)) + DigitVal(v[Len(v)])

\* The Content-Length a client declares: 0 without the header or when its
\* value is not a number.
Declared(c) ==
  IF ContentLengthHeaders(c) = {} THEN 0
  ELSE LET v == c.headers[CHOOSE i \in ContentLengthHeaders(c) : TRUE].value
       IN  IF IsNumber(v) THEN NumberOf(v) ELSE 0

\* A client that declares Content-Length N in one header and sends N bytes
\* after the blank line.
Framed(c) ==
  /\ Cardinality(ContentLengthHeaders(c)) = 1
  /\ IsNumber(c.headers[CHOOSE i \in ContentLengthHeaders(c) : TRUE].value)
  /\ Declared(c) = Len(c.body)

\* The part of a target before its first '?'.
BeforeQuery(t) ==
  LET qs == {i \in 1..Len(t) : t[i] = "?"}
  IN  IF qs = {} THEN t
      ELSE SubSeq(t, 1, (CHOOSE i \in qs : \A j \in qs : i <= j) - 1)

Contains(s, pat) == \E i \in 0..(Len(s) - Len(pat)) : MatchAt(s, pat, i)

\* A path minus the mount prefix and one leading slash.
Remainder(path) ==
  LET rest == SubSeq(path, Len(mount_point_) + 1, Len(path))
  IN  IF rest # <<>> /\ rest[1] = "/" THEN Tail(rest) ELSE rest

\* The request matches a registered (method, path) route exactly.
ExactRoute(req) ==
  \/ req.method = GET /\ BeforeQuery(req.path) \in get_handlers_
  \/ req.method = POST /\ BeforeQuery(req.path) \in post_handlers_

\* The header block of serialized bytes holds this line.
HeaderBlockHas(bytes, line) ==
  LET end == Find(bytes, HeaderTerminator, 0)
  IN  /\ end # npos
      /\ Contains(SubSeq(bytes, 1, end + 2), CRLF \o line \o CRLF)

ReadDone == calls.read # "pending"

Dispatched == (pc \in {"send", "close"} /\ calls.read = "ok") \/ pc = "terminated"

\* ------------------------------------------------------------------ claims

\* C1: framing does not depend on how the bytes are split across reads.  For
\* a client that declares Content-Length N and sends N body bytes, whenever
\* every recv filled the chunk or took the client's last bytes, read_request
\* ends as it does on the whole stream read at once, with the same Request,
\* whose body is the N bytes sent.
C1_FramingIndependentOfSplit ==
  (ReadDone /\ calls.full /\ received > 0 /\ Framed(client)) =>
    LET whole == FinishRead(Wire(client), npos, 0)
    IN  /\ (calls.read = "ok") = whole.ok
        /\ calls.read = "ok" =>
             /\ request = whole.request
             /\ request.body = client.body
             /\ Len(request.body) = Declared(client)

\* C1 witness: a framed request longer than two chunks has been read in
\* full chunks and parsed with its 6-byte body.
C1_Witness ==
  /\ pc = "dispatch"
  /\ calls.full
  /\ Framed(client)
  /\ Len(Wire(client)) > 2 * ChunkSize
  /\ request.body = client.body
  /\ Len(request.body) = 6

\* C2: for every request that reaches dispatch and carries one
\* Content-Length header, the length of Request.body is the number the
\* header declares, and 0 when its value is not a number (the request
\* without the header is C3's).
C2_BodyLengthIsDeclared ==
  (calls.read = "ok" /\ Cardinality(ContentLengthHeaders(client)) = 1) =>
    Len(request.body) = Declared(client)

\* C3: a request with no Content-Length header is parsed with an empty
\* body, whatever bytes follow the blank line.
C3_NoContentLengthNoBody ==
  (calls.read = "ok" /\ ContentLengthHeaders(client) = {}) =>
    request.body = <<>>

\* C4: every accepted connection gets exactly one send_response call, never
\* none and never two, and is then closed; when read_request fails the
\* response is a 400 and neither a handler nor a file lookup runs.
C4_ExactlyOneResponse ==
  /\ calls.responses <= 1
  /\ pc \in {"send", "close", "terminated"} => calls.responses = 1
  /\ pc \in {"accept", "returned", "terminated"} => open = {}
  /\ calls.read = "failed" =>
       /\ response.status = 400
       /\ ~calls.ran
       /\ calls.opened = <<>>

\* C5: connections are processed one at a time: at most one client socket
\* is open, none while listen is in accept, and no connection can be
\* accepted while one is being read, dispatched, answered or closed (so a
\* client that withholds its body blocks every later one).
C5_OneConnectionAtATime ==
  /\ Cardinality(open) <= 1
  /\ pc = "accept" => open = {}
  /\ pc \in {"recv", "dispatch", "send", "close"} =>
       /\ open = {accepted}
       /\ ~ENABLED Accept

\* C5 witness: the second connection is being read after the first was
\* answered and closed.
C5_Witness == pc = "recv" /\ accepted = 2 /\ open = {2} /\ delivered > 0

\* C6: a request whose method is neither GET nor POST never has a
\* registered handler run for it.
C6_OtherMethodsMiss ==
  calls.ran => request.method \in {GET, POST}

\* C7: when no route matches, a mount prefix is set and the path starts with
\* it, a remainder that contains ".." yields a 403 and no file is opened.
C7_TraversalForbidden ==
  LET path == BeforeQuery(request.path)
  IN  ( /\ pc \in {"send", "close"}
        /\ calls.read = "ok"
        /\ ~RouteFound(request)
        /\ mount_point_ # <<>>
        /\ StartsWith(path, mount_point_)
        /\ Contains(Remainder(path), DotDot) ) =>
        /\ response.status = 403
        /\ HeaderBlockHas(out, <<"C", "o", "n", "t", "e", "n", "t", "-", "L", "e", "n", "g", "t", "h", ":", " ", "9">>)
        /\ StartsWith(out, <<"H", "T", "T", "P", "/", "1", ".", "1", " ", "4", "0", "3", " ", "F", "o", "r", "b", "i", "d", "d", "e", "n", "\r", "\n">>)
        /\ calls.opened = <<>>
        /\ ~calls.ran

\* C7 witness: /assets/../../etc/passwd under the mount prefix /assets and
\* the directory ./public has been answered 403 with no file opened.
C7_Witness ==
  /\ pc = "send"
  /\ mount_point_ = <<"/", "a", "s", "s", "e", "t", "s">>
  /\ mount_dir_ = <<".", "/", "p", "u", "b", "l", "i", "c">>
  /\ request.path = <<"/", "a", "s", "s", "e", "t", "s", "/", ".", ".", "/", ".", ".", "/", "e", "t", "c", "/", "p", "a", "s", "s", "w", "d">>
  /\ response.status = 403
  /\ calls.opened = <<>>

\* C8: the serialized response of a request that matches a registered
\* (method, path) route exactly has a Content-Type header: the handler's,
\* or text/plain when the handler set none.
C8_RouteResponseHasContentType ==
  (pc \in {"send", "close"} /\ calls.ran /\ ExactRoute(request)) =>
    HeaderBlockHas(out,
      ContentTypeKey \o <<":", " ">> \o
        (IF ContentTypeKey \in DOMAIN calls.handler.headers
         THEN calls.handler.headers[ContentTypeKey]
         ELSE TextPlain))

\* C8 witness: a handler that set no Content-Type has run for an exact
\* route and the serialized response carries text/plain.
C8_Witness ==
  /\ pc = "send"
  /\ calls.ran
  /\ ExactRoute(request)
  /\ ContentTypeKey \notin DOMAIN calls.handler.headers
  /\ HeaderBlockHas(out, <<"C", "o", "n", "t", "e", "n", "t", "-", "T", "y", "p", "e", ":", " ", "t", "e", "x", "t", "/", "p", "l", "a", "i", "n">>)

\* C9: when recv returns 0 (the stream ends before the terminator or before
\* header_end + 4 + Content-Length bytes are buffered, or the buffer is
\* empty) or fails other than by an interrupt, read_request fails and the
\* one response is a 400, with no handler run.
C9_EndOfStreamIs400 ==
  (ReadDone /\ received <= 0) =>
    /\ calls.read = "failed"
    /\ response.status = 400
    /\ StartsWith(out, <<"H", "T", "T", "P", "/", "1", ".", "1", " ", "4", "0", "0", " ", "B", "a", "d", " ", "R", "e", "q", "u", "e", "s", "t", "\r", "\n">>)
    /\ calls.responses = 1
    /\ ~calls.ran

\* C9 witness: the stream ended after the terminator and before the whole
\* declared body, and the answer is a 400.
C9_Witness ==
  /\ pc = "send"
  /\ received = 0
  /\ header_end # npos
  /\ content_length > 0
  /\ response.status = 400

\* C10: the handler registered for a path P (in the table the method
\* selects) runs for a target T exactly when the part of T before its first
\* '?' equals P byte for byte.
C10_ExactMatchAfterQuery ==
  Dispatched =>
    /\ calls.ran => calls.route \in SelectHandlers(request.method)
    /\ \A P \in SelectHandlers(request.method) :
         (calls.ran /\ calls.route = P) <=> (BeforeQuery(request.path) = P)

\* C10 witness: a handler has run for a target with a query string.
C10_Witness ==
  /\ pc = "send"
  /\ calls.ran
  /\ request.path # calls.route
  /\ Contains(request.path, <<"?">>)

\* ------------------------------------------------ the static file resolver

\* The name of a file of directory dir.
Under(dir, name) == dir \o <<"/">> \o name

\* The files the static resolver is to open for a path that matched no
\* route: index.html for the prefix itself, the remainder (or index.html
\* when it is empty) for a path under the prefix, none otherwise.
ExpectedFiles(path) ==
  IF mount_point_ = <<>> THEN <<>>
  ELSE IF path = mount_point_ THEN <<Under(mount_dir_, IndexHtml)>>
  ELSE IF StartsWith(path, mount_point_)
  THEN <<Under(mount_dir_, IF Remainder(path) = <<>> THEN IndexHtml
                           ELSE Remainder(path))>>
  ELSE <<>>

\* dispatch has returned for a request that matched no route.
RoutingMiss ==
  /\ pc \in {"send", "close"}
  /\ calls.read = "ok"
  /\ ~RouteFound(request)

\* The bytes of the answer to a request that matches no route and no mount.
NotFoundAnswer == <<"H", "T", "T", "P", "/", "1", ".", "1", " ", "4", "0", "4", " ", "N", "o", "t", " ", "F", "o", "u", "n", "d", "\r", "\n", "C", "o", "n", "t", "e", "n", "t", "-", "T", "y", "p", "e", ":", " ", "t", "e", "x", "t", "/", "p", "l", "a", "i", "n", "\r", "\n", "C", "o", "n", "t", "e", "n", "t", "-", "L", "e", "n", "g", "t", "h", ":", " ", "9", "\r", "\n", "C", "o", "n", "n", "e", "c", "t", "i", "o", "n", ":", " ", "c", "l", "o", "s", "e", "\r", "\n", "\r", "\n", "n", "o", "t", "_", "f", "o", "u", "n", "d">>

\* C11: on a routing miss the static resolver opens D/index.html for the
\* path P, D/<remainder> (index.html when the remainder is empty) for a path
\* that starts with P, and no file otherwise; a file that exists is served
\* with status 200 and its content, a miss with no file to open is a 404,
\* and with no mount prefix every routing miss is a 404.  (A remainder that
\* contains ".." is refused before the file is opened.)
C11_StaticResolverPicksFile ==
  LET path == BeforeQuery(request.path)
  IN  (RoutingMiss /\ ~Contains(Remainder(path), DotDot)) =>
        /\ calls.opened = ExpectedFiles(path)
        /\ ~calls.ran
        /\ (calls.opened # <<>> /\ calls.file.exists) =>
             /\ response.status = 200
             /\ response.body = calls.file.content
        /\ calls.opened = <<>> =>
             /\ response.status = 404
             /\ response.body = NotFoundBody

\* C11 witness: under the mount (/assets, ./public) the path /assets/a.txt
\* has been served from ./public/a.txt.
C11_Witness ==
  /\ pc = "send"
  /\ mount_point_ = <<"/", "a", "s", "s", "e", "t", "s">>
  /\ BeforeQuery(request.path) = <<"/", "a", "s", "s", "e", "t", "s", "/", "a", ".", "t", "x", "t">>
  /\ calls.opened = <<<<".", "/", "p", "u", "b", "l", "i", "c", "/", "a", ".", "t", "x", "t">>>>
  /\ response.status = 200
  /\ response.body = <<"h", "i">>

\* C12: a static file that cannot be opened is answered exactly as a request
\* that matches no route and no mount: 404, body not_found, Content-Type
\* text/plain, in the index.html case and in the remainder case alike.
C12_MissingFileIsNotFound ==
  /\ (RoutingMiss /\ calls.opened # <<>> /\ ~calls.file.exists) =>
       /\ response.status = 404
       /\ out = NotFoundAnswer
  /\ (RoutingMiss /\ mount_point_ = <<>>) => out = NotFoundAnswer
  /\ (RoutingMiss /\ ExpectedFiles(BeforeQuery(request.path)) = <<>>) =>
       out = NotFoundAnswer

\* C12 witness: index.html of the mount directory is missing and the answer
\* is the 404 of an unmatched request.
C12_Witness ==
  /\ pc = "send"
  /\ calls.opened = <<<<".", "/", "p", "u", "b", "l", "i", "c", "/", "i", "n", "d", "e", "x", ".", "h", "t", "m", "l">>>>
  /\ ~calls.file.exists
  /\ out = NotFoundAnswer

\* --------------------------------------------------- the response writer

\* The pieces of a byte string between its CRLFs.
RECURSIVE SplitLines(_)
SplitLines(bytes) ==
  LET e == Find(bytes, CRLF, 0)
  IN  IF e = npos THEN <<bytes>>
      ELSE <<Substr(bytes, 0, e)>> \o SplitLines(SubstrFrom(bytes, e + 2))

\* The name of a header line: what precedes its first ": ".
KeyOf(line) == Substr(line, 0, Find(line, <<":", " ">>, 0))

\* C13: every serialized response is the status line, each header of the
\* response map once in ascending key order, Content-Length with the byte
\* length of the body, Connection: close, an empty line and the body
\* unchanged.
C13_SerializedResponseLayout ==
  pc \in {"send", "close"} =>
    LET end == Find(out, HeaderTerminator, 0)
        lines == SplitLines(Substr(out, 0, end))
        n == Len(lines)
        keys == DOMAIN response.headers
    IN  /\ end # npos
        /\ n = Cardinality(keys) + 3
        /\ StartsWith(lines[1], <<"H", "T", "T", "P", "/", "1", ".", "1", " ">> \o IntDigits(response.status) \o <<" ">>)
        /\ \A i \in 2..(n - 2) :
             /\ KeyOf(lines[i]) \in keys
             /\ lines[i] = KeyOf(lines[i]) \o <<":", " ">>
                             \o response.headers[KeyOf(lines[i])]
        /\ \A i, j \in 2..(n - 2) :
             i < j => StrLess(KeyOf(lines[i]), KeyOf(lines[j]))
        /\ lines[n - 1] = <<"C", "o", "n", "t", "e", "n", "t", "-", "L", "e", "n", "g", "t", "h", ":", " ">> \o IntDigits(Len(response.body))
        /\ lines[n] = <<"C", "o", "n", "n", "e", "c", "t", "i", "o", "n", ":", " ", "c", "l", "o", "s", "e">>
        /\ SubstrFrom(out, end + 4) = response.body

\* C13 witness: a response with two headers, Content-Type before X-A, and an
\* empty body has been serialized.
C13_Witness ==
  /\ pc = "send"
  /\ DOMAIN response.headers = {ContentTypeKey, <<"X", "-", "A">>}
  /\ response.status = 503
  /\ out = <<"H", "T", "T", "P", "/", "1", ".", "1", " ", "5", "0", "3", " ", "S", "e", "r", "v", "i", "c", "e", " ", "U", "n", "a", "v", "a", "i", "l", "a", "b", "l", "e", "\r", "\n", "C", "o", "n", "t", "e", "n", "t", "-", "T", "y", "p", "e", ":", " ", "t", "e", "x", "t", "/", "p", "l", "a", "i", "n", "\r", "\n", "X", "-", "A", ":", " ", "1", "\r", "\n", "C", "o", "n", "t", "e", "n", "t", "-", "L", "e", "n", "g", "t", "h", ":", " ", "0", "\r", "\n", "C", "o", "n", "n", "e", "c", "t", "i", "o", "n", ":", " ", "c", "l", "o", "s", "e", "\r", "\n", "\r", "\n">>

\* C14: the bytes the send calls have written are, in order and without gap
\* or repetition, the first sent bytes of the serialized response; the loop
\* makes at most one call per byte plus one; when no send has failed and
\* the loop is over the whole response is written; after a send that
\* reports 0 or an error the loop is over and no send follows.
C14_FlushLoop ==
  /\ sent <= Len(out)
  /\ calls.written = SubSeq(out, 1, sent)
  /\ calls.sends <= sent + 1
  /\ (pc = "close" /\ ~calls.send_failed) => calls.written = out
  /\ calls.send_failed => (pc = "close" /\ calls.sends <= sent + 1)
  /\ pc = "send" => (~calls.send_failed /\ calls.sends <= sent)

\* C14 witness: a response has been written whole in more than one send.
C14_Witness ==
  /\ pc = "close"
  /\ calls.sends > 1
  /\ ~calls.send_failed
  /\ calls.written = out
  /\ Len(out) > SendPiece

\* -------------------------------------------------------- the accept loop

InFlight == {"recv", "dispatch", "send"}

\* The step is an accept call that failed.
AcceptCallFailed ==
  /\ pc = "accept"
  /\ client_fd' = -1
  /\ <<client_fd, accept_errno>>' # <<client_fd, accept_errno>>

\* C15: an accept that fails with EINTR is retried (the loop is in accept
\* again, with no connection handled and the server untouched); any other
\* accept failure ends the loop for good: listen returns with the listening
\* socket closed and running_ false, and nothing is accepted afterwards.
C15_AcceptFailures ==
  /\ [](pc = "returned" => (server_fd_ = -1 /\ ~running_ /\ open = {}))
  /\ [][ /\ (AcceptCallFailed /\ accept_errno' = "EINTR" /\ running_) =>
              /\ pc' = "accept"
              /\ UNCHANGED <<accepted, open, client, calls, response, out,
                             server_fd_, running_>>
         /\ (AcceptCallFailed /\ accept_errno' = "other") =>
              /\ pc' = "returned"
              /\ server_fd_' = -1
              /\ ~running_'
              /\ UNCHANGED <<accepted, open, client, calls, response, out>>
         /\ pc = "returned" => UNCHANGED vars ]_vars

\* C15 witness: listen has returned on an accept failure other than EINTR,
\* after one connection.
C15_Witness ==
  /\ pc = "returned"
  /\ accept_errno = "other"
  /\ client_fd = -1
  /\ accepted = 1
  /\ server_fd_ = -1
  /\ ~running_

EndsWith(s, suffix) ==
  /\ Len(suffix) <= Len(s)
  /\ SubSeq(s, Len(s) - Len(suffix) + 1, Len(s)) = suffix

\* The table of suffixes and types.
SuffixTypes ==
  { <<<<".", "h", "t", "m", "l">>, <<"t", "e", "x", "t", "/", "h", "t", "m", "l">>>>,
    <<<<".", "c", "s", "s">>, <<"t", "e", "x", "t", "/", "c", "s", "s">>>>,
    <<<<".", "j", "s">>, <<"a", "p", "p", "l", "i", "c", "a", "t", "i", "o", "n", "/", "j", "a", "v", "a", "s", "c", "r", "i", "p", "t">>>>,
    <<<<".", "j", "s", "o", "n">>, <<"a", "p", "p", "l", "i", "c", "a", "t", "i", "o", "n", "/", "j", "s", "o", "n">>>>,
    <<<<".", "t", "x", "t">>, <<"t", "e", "x", "t", "/", "p", "l", "a", "i", "n">>>> }

\* The type of a file name: that of the suffix its lower-case form ends
\* with, application/octet-stream without one.
TypeOfName(name) ==
  LET hits == {st \in SuffixTypes : EndsWith(Lowered(name), st[1])}
  IN  IF hits = {} THEN <<"a", "p", "p", "l", "i", "c", "a", "t", "i", "o", "n", "/", "o", "c", "t", "e", "t", "-", "s", "t", "r", "e", "a", "m">>
      ELSE (CHOOSE st \in hits : TRUE)[2]

\* A static file has been served.
FileServed ==
  /\ pc \in {"send", "close"}
  /\ calls.opened # <<>>
  /\ calls.file.exists

Asked(method, route) ==
  /\ app.last.request.method = method
  /\ strip_query(app.last.request.path) = route

\* C17: the resolver returns a worker id in the range [1,72] for every
\* Node, negative and very large seeds included: the id is
\* (3*A + 2*B + 4*C + seed mod 72) mod 72 + 1, never below 1 or above 72.
C17_WorkerIdInRange ==
  app.resolved =>
    /\ app.id \in 1..72
    /\ app.id = ((3 * pythag_sum(app.node.title)
                    + 2 * sum_digits(app.node.arcana)
                    + 4 * day_mod_36(app.node.timestamp)
                    + (app.node.seed % 72)) % 72) + 1

\* The registry files that hold a JSON document, each with the document's
\* serialized form: keys in order, ", " between entries, no other space.
RegistryDocuments ==
  (<<"{", "\"", "w", "o", "r", "k", "e", "r", "s", "\"", ":", " ", "[", "1", ",", " ", "2", ".", "5", ",", " ", "t", "r", "u", "e", ",", " ", "n", "u", "l", "l", "]", ",", " ", "\"", "n", "a", "m", "e", "\"", ":", " ", "\"", "a", "\\", "n", "b", "\"", "}", "\n">>
     :> <<"{", "\"", "n", "a", "m", "e", "\"", ":", "\"", "a", "\\", "n", "b", "\"", ",", " ", "\"", "w", "o", "r", "k", "e", "r", "s", "\"", ":", "[", "1", ",", " ", "2", ".", "5", ",", " ", "t", "r", "u", "e", ",", " ", "n", "u", "l", "l", "]", "}">>)
  @@ (<<"{", "\"", "b", "\"", ":", "{", "\"", "d", "\"", ":", "-", "0", ".", "0", "0", "1", ",", "\"", "c", "\"", ":", "1", "e", "2", "0", "}", ",", "\"", "a", "\"", ":", "[", "]", "}">>
     :> <<"{", "\"", "a", "\"", ":", "[", "]", ",", " ", "\"", "b", "\"", ":", "{", "\"", "c", "\"", ":", "1", "e", "+", "2", "0", ",", " ", "\"", "d", "\"", ":", "-", "0", ".", "0", "0", "1", "}", "}">>)
  @@ (<<"n", "u", "l", "l">> :> <<"n", "u", "l", "l">>)

RegistryLoads(file) == file.exists /\ file.content \in DOMAIN RegistryDocuments

NoRegistryAnswer == <<"{", "\"", "e", "r", "r", "o", "r", "\"", ":", "\"", "n", "o", "_", "r", "e", "g", "i", "s", "t", "r", "y", "\"", "}">>

\* C18: GET /registry answers 503 with {"error":"no_registry"} whenever
\* the registry was not loaded and 200 with the serialized document
\* whenever it was; the registry is what load_registry made of the file at
\* startup, and a request repeated gets the answer it got before.
C18_RegistryAnswer ==
  /\ app.pc = "listen" => reg_.ok = RegistryLoads(app.file)
  /\ Asked(GET, RegistryRoute) =>
       /\ ~app.last.threw
       /\ IF reg_.ok
          THEN /\ app.last.response.status = 200
               /\ app.last.response.body = RegistryDocuments[app.file.content]
          ELSE /\ app.last.response.status = 503
               /\ app.last.response.body = NoRegistryAnswer
       /\ app.again => app.before = app.last.response

\* /registry has been asked twice in a row of a server that loaded a
\* document whose serialized form is not the bytes of the file.
C18_Witness ==
  /\ Asked(GET, RegistryRoute)
  /\ app.again
  /\ reg_.ok
  /\ app.last.response.status = 200
  /\ app.last.response.body # app.file.content

\* The bodies that are no JSON document, or whose seed cannot be
\* extracted as an int.
Rejected ==
  { <<>>,
    <<"{">>,
    <<"{", "\"", "s", "e", "e", "d", "\"", ":", "}">>,
    <<"{", "\"", "s", "e", "e", "d", "\"", ":", "1", ",", "}">>,
    <<"{", "s", "e", "e", "d", ":", "1", "}">>,
    <<"t", "r", "u">>,
    <<"[", "1", " ", "2", "]">>,
    <<"{", "}", " ", "x">>,
    <<"\"", "a", "b", "c">>,
    <<"{", "\"", "t", "i", "t", "l", "e", "\"", ":", "\"", "\\", "u", "0", "0", "4", "1", "\"", "}">>,
    <<"{", "\"", "s", "e", "e", "d", "\"", ":", "-", "}">>,
    <<"{", "\"", "s", "e", "e", "d", "\"", ":", "\"", "a", "b", "c", "\"", "}">>,
    <<"{", "\"", "s", "e", "e", "d", "\"", ":", "\"", "9", "9", "9", "9", "9", "9", "9", "9", "9", "9", "9", "\"", "}">>,
    <<"{", "\"", "s", "e", "e", "d", "\"", ":", "1", "e", "9", "9", "9", "}">> }

BadJsonAnswer == <<"{", "\"", "e", "r", "r", "o", "r", "\"", ":", "\"", "b", "a", "d", "_", "j", "s", "o", "n", "\"", "}">>

WorkerIdAnswer(id) ==
  <<"{", "\"", "s", "y", "s", "t", "e", "m", "\"", ":", "\"", "r", "a", "k", "u", "-", "l", "i", "t", "e", "-", "c", "p", "p", "\"", ",", " ", "\"", "w", "o", "r", "k", "e", "r", "_", "i", "d", "\"", ":">> \o IntDigits(id) \o <<"}">>

\* C19: POST /resolve never lets a failure leave the handler: a body the
\* parser rejects, or whose field extraction throws, gets 400 with
\* {"error":"bad_json"}; any other body gets 200 with a worker_id, the same
\* on every call with that body (45 for the body of the specification).
C19_ResolveNeverThrows ==
  Asked(POST, ResolveRoute) =>
    /\ ~app.last.threw
    /\ IF app.last.request.body \in Rejected
       THEN /\ ~app.resolved
            /\ app.last.response.status = 400
            /\ app.last.response.body = BadJsonAnswer
       ELSE /\ app.resolved
            /\ app.last.response.status = 200
            /\ app.last.response.body = WorkerIdAnswer(app.id)
    /\ app.last.request.body = <<"{", "\"", "t", "i", "t", "l", "e", "\"", ":", "\"", "A", "B", "\"", ",", "\"", "a", "r", "c", "a", "n", "a", "\"", ":", "\"", "1", "\"", ",", "\"", "s", "e", "e", "d", "\"", ":", "3", "3", "}">>
         => app.id = 45
    /\ app.again => app.before = app.last.response

\* A body that parses and whose seed is no number has been posted twice
\* in a row and answered 400.
C19_Witness ==
  /\ Asked(POST, ResolveRoute)
  /\ app.last.request.body = <<"{", "\"", "s", "e", "e", "d", "\"", ":", "\"", "a", "b", "c", "\"", "}">>
  /\ app.again
  /\ app.last.response.status = 400
  /\ app.last.response.body = BadJsonAnswer

\* ------------------------------------------------- the short-read heuristic

\* A recv has returned fewer bytes than the chunk size.
ShortRead == 0 < received /\ received < ChunkSize

\* C21: the framer stops reading as soon as one recv returns fewer bytes
\* than the chunk size; when the buffer then has no terminator or holds
\* fewer than header_end + 4 + Content-Length bytes, read_request fails, the
\* one response is a 400 and nothing is dispatched.
C21_ShortReadRejectsIncomplete ==
  /\ ShortRead => ReadDone /\ pc # "recv"
  /\ ( /\ ShortRead
       /\ \/ header_end = npos
          \/ calls.buffered < header_end + 4 + content_length ) =>
       /\ calls.read = "failed"
       /\ response.status = 400
       /\ calls.responses = 1
       /\ ~calls.ran
       /\ calls.opened = <<>>

\* ------------------------------------------------------- handler failures

\* The handler that ran for this connection threw.
HandlerThrew == calls.ran /\ calls.handler.throws

\* C22: an exception raised inside a route handler is intercepted nowhere:
\* for that connection send_response is never called and no byte is
\* written, the exception leaves listen, and no later connection is
\* accepted.
C22_HandlerExceptionEscapes ==
  /\ HandlerThrew =>
       /\ pc = "terminated"
       /\ calls.responses = 0
       /\ calls.sends = 0
       /\ calls.written = <<>>
       /\ out = <<>>
  /\ pc = "terminated" =>
       /\ ~ENABLED Accept
       /\ ~ENABLED Close

\* C22 witness: the handler of the second connection threw after the first
\* connection was answered and closed; its socket was left open.
C22_Witness ==
  /\ pc = "terminated"
  /\ HandlerThrew
  /\ accepted = 2
  /\ open = {2}
  /\ calls.responses = 0

\* ---------------------------------------------------------- files opened

\* The files opened for this connection.
OpenedFiles == {calls.opened[i] : i \in DOMAIN calls.opened}

\* The request path without its query, minus the mount prefix.
AfterPrefix(path) == SubSeq(path, Len(mount_point_) + 1, Len(path))

\* The relative names a request path can stand for: index.html, and for a
\* path that starts with the mount prefix what follows the prefix, with or
\* without the slash that separates them.
RelativeNames(path) ==
  {IndexHtml} \cup
    (IF StartsWith(path, mount_point_)
     THEN {AfterPrefix(path), Remainder(path)} ELSE {})

\* C23: every file the server opens is named by the mount directory, a '/'
\* and a relative name that is index.html or the request path minus the
\* mount prefix, and the relative name never contains ".."; a request for
\* which a registered handler runs opens no file, whatever its path.
C23_OpenedFilesUnderMount ==
  /\ \A f \in OpenedFiles :
       /\ mount_point_ # <<>>
       /\ \E name \in RelativeNames(BeforeQuery(request.path)) :
            /\ f = mount_dir_ \o <<"/">> \o name
            /\ ~Contains(name, DotDot)
  /\ Len(calls.opened) <= 1
  /\ (calls.ran \/ (Dispatched /\ ExactRoute(request))) => calls.opened = <<>>

\* C23 witness: for the path /assets/a.txt under the prefix /assets the
\* file ./public/a.txt has been opened, the only one.
C23_Witness ==
  /\ pc = "send"
  /\ mount_point_ = <<"/", "a", "s", "s", "e", "t", "s">>
  /\ request.path = <<"/", "a", "s", "s", "e", "t", "s", "/", "a", ".", "t", "x", "t">>
  /\ ~calls.ran
  /\ calls.opened = <<<<".", "/", "p", "u", "b", "l", "i", "c", "/", "a", ".", "t", "x", "t">>>>

\* ------------------------------------------------------ size_t arithmetic

\* C24: the completeness test is not defeated by unsigned wrap-around: for
\* every Content-Length strtoull can produce, read_request hands the
\* request to the parser only when the buffer holds the terminator and that
\* many body bytes after it, and the body the parser slices has that length.
C24_CompletenessSurvivesWrap ==
  calls.read = "ok" =>
    /\ header_end # npos
    /\ calls.buffered >= header_end + 4 + content_length
    /\ Len(request.body) = content_length

\* ------------------------------------------------ repeated Content-Length

\* The client sends more than one Content-Length line, all under one key.
RepeatedContentLength(c) ==
  /\ Cardinality(ContentLengthHeaders(c)) > 1
  /\ \A i, j \in ContentLengthHeaders(c) : c.headers[i].key = c.headers[j].key

\* The key of the client's Content-Length lines.
RepeatedKey(c) == c.headers[CHOOSE i \in ContentLengthHeaders(c) : TRUE].key

\* C25: when a request carries more than one Content-Length line, the value
\* that frames the body, and so the body's length, is the value the parsed
\* Request records under that key, which is the value of the last line.
C25_FramingValueIsRecordedValue ==
  (calls.read = "ok" /\ RepeatedContentLength(client)) =>
    /\ RepeatedKey(client) \in DOMAIN request.headers
    /\ request.headers[RepeatedKey(client)] =
         client.headers[Len(client.headers)].value
    /\ IsNumber(request.headers[RepeatedKey(client)])
    /\ content_length = NumberOf(request.headers[RepeatedKey(client)])
    /\ Len(request.body) = content_length

\* ------------------------------------------- Content-Length of a response

\* The header lines of serialized bytes: what lies between the status line
\* and the empty line.
HeaderLinesOf(bytes) ==
  Tail(SplitLines(Substr(bytes, 0, Find(bytes, HeaderTerminator, 0))))

\* The positions of the Content-Length lines among them.
ContentLengthLines(lines) ==
  {i \in DOMAIN lines : Lowered(KeyOf(lines[i])) = Lowered(ContentLengthKey)}

\* C26: every serialized response contains exactly one Content-Length
\* header line, and its value is the byte length of the body, whatever
\* headers the handler put in the response map.
C26_OneContentLengthLine ==
  pc \in {"send", "close"} =>
    LET lines == HeaderLinesOf(out)
    IN  /\ Find(out, HeaderTerminator, 0) # npos
        /\ Cardinality(ContentLengthLines(lines)) = 1
        /\ \A i \in ContentLengthLines(lines) :
             lines[i] = ContentLengthKey \o <<":", " ">>
                          \o IntDigits(Len(response.body))

\* ------------------------------------------------------------ termination

\* handle_client is running for a connection.
Handling == pc \in {"recv", "dispatch", "send", "close"}

\* The connection has been closed and listen is back at the loop's test:
\* in accept, or returned when stop() was called meanwhile.
BackInLoop == pc \in {"accept", "returned"} /\ open = {}

\* C27: handling a connection always completes when the socket calls
\* return: provided each recv and send returns, recv is interrupted only
\* finitely often and no handler throws, the read loop ends, a response is
\* attempted, the connection is closed and the server is back to accept the
\* next one.
C27_ConnectionCompletes ==
  ([]~HandlerThrew) =>
    /\ (pc = "recv") ~> (pc # "recv" /\ calls.read \in {"ok", "failed"})
    /\ (pc = "recv") ~> (pc \in {"send", "close"} /\ calls.responses = 1)
    /\ Handling ~> BackInLoop
====
